---- MODULE Spec2Model ----
(***************************************************************************)
(* A model of the md5rs-client batch pipeline (src/src/lib.rs `process`):  *)
(* the driver, the exporter thread, the decode producers (with or without  *)
(* the staging thread), the outbound request generator, the inbound loop   *)
(* and the resume reader.  The inference service and the gRPC transport    *)
(* are the environment: every outcome they can produce is a choice.        *)
(***************************************************************************)
EXTENDS Integers, Sequences, FiniteSets, TLC

\* ------------------------------------------------------------------ bounds
\* Largest number of frames the transcoder hands back for one video.
MaxDecoded == 3
\* Longest prior artifact the resume reader is run on in ResumeSpec.
MaxPrior == 4
\* Capacity of the staging channel chosen for the run (config.buffer_size).
BufferSize == 1
\* The largest total_frames of a record of a prior artifact.
MaxTotal == 2
\* Longest accumulator written and read back in RoundTripSpec.
MaxWritten == 2
\* Longest decoded frame list and largest max_frames in SampleSpec.
MaxLen == 30
MaxSample == 22
\* Most entries of a walked tree in IndexSpec.
MaxEntries == 5
\* Largest side of an image and largest imgsz in ResizeSpec.
MaxSide == 6
MaxImgsz == 6

\* ------------------------------------------------------- program constants
\* bounded(8): capacity of the media channel.
MediaCap == 8
\* Args::max_frames default: frames sampled from one video.
MaxFrames == 3
\* A checkpoint interval greater than zero (config.checkpoint).
CheckpointEvery == 2

None == "None"
Some == "Some"

\* --------------------------------------------------------------- FileItem
\* FileItem::new: tmp_path defaults to file_path when none is given.
FileItem_new(folder_id, file_id, file_path, tmp_path) ==
    [folder_id |-> folder_id, file_id |-> file_id, file_path |-> file_path,
     tmp_path |-> IF tmp_path = None THEN file_path ELSE tmp_path]

\* The walked trees, in file-name order: the root directory and its entries.
\* `media` is is_video_photo of the entry.
TreeVideos ==
    << [kind |-> "dir",  path |-> "root",      media |-> FALSE],
       [kind |-> "file", path |-> "X.mp4",     media |-> TRUE],
       [kind |-> "file", path |-> "Y.mp4",     media |-> TRUE] >>

TreeMixed ==
    << [kind |-> "dir",  path |-> "root",      media |-> FALSE],
       [kind |-> "file", path |-> "Y.mp4",     media |-> TRUE],
       [kind |-> "file", path |-> "Z.jpg",     media |-> TRUE],
       [kind |-> "file", path |-> "notes.txt", media |-> FALSE] >>

\* A folder with no media file in it.
TreeEmpty ==
    << [kind |-> "dir",  path |-> "root",      media |-> FALSE],
       [kind |-> "file", path |-> "notes.txt", media |-> FALSE] >>

Paths == {"X.mp4", "Y.mp4", "Z.jpg"}

\* media_worker dispatches on the lowercased extension.
IsImage(path) == path \in {"Z.jpg"}
IsVideo(path) == path \in {"X.mp4", "Y.mp4"}

\* An indexer that numbers the files of each directory from zero.
RECURSIVE Walk_PerFolder(_, _, _, _)
Walk_PerFolder(entries, folder_id, file_id, acc) ==
    IF entries = <<>> THEN acc
    ELSE LET e == Head(entries) IN
         IF e.kind = "dir"
         THEN Walk_PerFolder(Tail(entries), folder_id + 1, 0, acc)
         ELSE IF e.media
              THEN Walk_PerFolder(Tail(entries), folder_id, file_id + 1,
                        acc \cup {FileItem_new(folder_id, file_id, e.path, None)})
              ELSE Walk_PerFolder(Tail(entries), folder_id, file_id, acc)

RECURSIVE Walk(_, _, _, _)
Walk(entries, folder_id, file_id, acc) ==
    IF entries = <<>> THEN acc
    ELSE LET e == Head(entries) IN
         IF e.kind = "dir"
         THEN Walk(Tail(entries), folder_id + 1, file_id, acc)
         ELSE IF e.media
              THEN Walk(Tail(entries), folder_id, file_id + 1,
                        acc \cup {FileItem_new(folder_id, file_id, e.path, None)})
              ELSE Walk(Tail(entries), folder_id, file_id, acc)

index_files_and_folders(tree) == Walk(tree, 0, 0, {})

\* The staged copy of a file: a unique path inside the staging directory.
StagedPath(path) ==
    CASE path = "X.mp4" -> "buffer/X.mp4"
      [] path = "Y.mp4" -> "buffer/Y.mp4"
      [] path = "Z.jpg" -> "buffer/Z.jpg"

\* ------------------------------------------------------------ ExportFrame
ExportFrame(file, frame_index, total_frames, bboxes, label, error) ==
    [file |-> file, frame_index |-> frame_index, total_frames |-> total_frames,
     bboxes |-> bboxes, label |-> label, error |-> error]

\* The record as it is written to the artifact: FileItem.tmp_path carries
\* #[serde(skip_serializing)] and is not written.
SerializeFileItem(f) ==
    [folder_id |-> f.folder_id, file_id |-> f.file_id, file_path |-> f.file_path]

SerializeFrame(r) ==
    [file |-> SerializeFileItem(r.file), frame_index |-> r.frame_index,
     total_frames |-> r.total_frames, bboxes |-> r.bboxes, label |-> r.label,
     error |-> r.error]

\* export::export: the whole accumulator, in order, replaces the artifact.
WriteArtifact(data) ==
    [written |-> TRUE, records |-> [i \in 1..Len(data) |-> SerializeFrame(data[i])]]

NoArtifact == [written |-> FALSE, records |-> <<>>]

\* ---------------------------------------------------------- sample_evenly
\* sample_evenly computes in f64.  A positive f64 is kept here as its
\* 53-bit significand S, in three limbs h, m, l (S = h*2^40 + m*2^20 + l,
\* with 2^52 <= S < 2^53), and the number x of its bits that stand after the
\* binary point: the value is S / 2^x.
Limb == 2^20
TopMin == 2^12

\* Round to nearest, ties to even: the significand goes up by one when what
\* was cut off is more than half a unit, or exactly half and S is odd.
RoundF(h, m, l, x, more_than_half, half) ==
    IF more_than_half \/ (half /\ l % 2 = 1)
    THEN LET l2 == (l + 1) % Limb
             m2 == (m + (l + 1) \div Limb) % Limb
             h2 == h + (m + (l + 1) \div Limb) \div Limb
         IN  IF h2 = 2 * TopMin
             THEN [h |-> TopMin, m |-> 0, l |-> 0, x |-> x - 1]
             ELSE [h |-> h2, m |-> m2, l |-> l2, x |-> x]
    ELSE [h |-> h, m |-> m, l |-> l, x |-> x]

\* a as f64 / b as f64, for integers 1 <= a, b < 2^10: the quotient is
\* scaled into [1, 2), 52 further bits come from long division, and the
\* remainder decides the rounding.
DivF(a, b) ==
    LET e  == CHOOSE k \in -10..10 :
                IF k >= 0 THEN b * 2^k <= a /\ a < b * 2^(k + 1)
                ELSE b <= a * 2^(-k) /\ a * 2^(-k) < 2 * b
        A  == IF e >= 0 THEN a ELSE a * 2^(-e)
        B  == IF e >= 0 THEN b * 2^e ELSE b
        r0 == A % B
        d1 == (r0 * TopMin) \div B
        r1 == (r0 * TopMin) % B
        d2 == (r1 * Limb) \div B
        r2 == (r1 * Limb) % B
        d3 == (r2 * Limb) \div B
        r3 == (r2 * Limb) % B
    IN  RoundF(TopMin + d1, d2, d3, 52 - e, 2 * r3 > B, 2 * r3 = B)

\* i as f64 * f, for an integer 1 <= i < 2^10: the exact product, cut back
\* to 53 bits and rounded.
MulF(i, f) ==
    LET pl == f.l * i
        pm == f.m * i + pl \div Limb
        ph == f.h * i + pm \div Limb
        l1 == pl % Limb
        m1 == pm % Limb
        d  == CHOOSE k \in 0..10 : TopMin * 2^k <= ph /\ ph < TopMin * 2^(k + 1)
        cut == l1 % 2^d
    IN  IF d = 0 THEN [h |-> ph, m |-> m1, l |-> l1, x |-> f.x]
        ELSE RoundF(ph \div 2^d,
                    m1 \div 2^d + (ph % 2^d) * 2^(20 - d),
                    l1 \div 2^d + (m1 % 2^d) * 2^(20 - d),
                    f.x - d,
                    cut > 2^(d - 1), cut = 2^(d - 1))

\* f.floor() as usize, for values below 2^30.
FloorF(f) ==
    IF f.x > 52 THEN 0
    ELSE IF f.x >= 40 THEN f.h \div 2^(f.x - 40)
    ELSE f.h * 2^(40 - f.x) + f.m \div 2^(f.x - 20)

\* The indexes sample_evenly picks from a list of length len: floor(i * step)
\* with step = len / sample_size, for i in 0..sample_size-1, in f64.
sample_evenly(len, sample_size) ==
    IF sample_size = 0 \/ len = 0 THEN <<>>
    ELSE LET step == DivF(len, sample_size)
         IN  [i \in 1..sample_size |->
                IF i = 1 THEN 0 ELSE FloorF(MulF(i - 1, step))]

\* ------------------------------------------------- resume_from_checkpoint
\* The counting loop over the parsed records: per file the running count and
\* the total_frames of its first record; the file leaves the work set when
\* the two are equal after a record has been counted.
\* A reader that compares the running count with the total_frames of the
\* record at hand instead of the file's first record.
RECURSIVE ResumeLoop_LastTotal(_, _, _, _)
ResumeLoop_LastTotal(recs, count, total, all_files) ==
    IF recs = <<>> THEN all_files
    ELSE LET f      == Head(recs).file
             c      == IF f \in DOMAIN count THEN count[f] + 1 ELSE 1
             t      == Head(recs).total_frames
             count2 == (f :> c) @@ count
             total2 == (f :> t) @@ total
         IN  ResumeLoop_LastTotal(Tail(recs), count2, total2,
                        IF t = c THEN all_files \ {f} ELSE all_files)

RECURSIVE ResumeLoop(_, _, _, _)
ResumeLoop(recs, count, total, all_files) ==
    IF recs = <<>> THEN all_files
    ELSE LET f      == Head(recs).file
             c      == IF f \in DOMAIN count THEN count[f] + 1 ELSE 1
             t      == IF f \in DOMAIN total THEN total[f] ELSE Head(recs).total_frames
             count2 == (f :> c) @@ count
             total2 == (f :> t) @@ total
         IN  ResumeLoop(Tail(recs), count2, total2,
                        IF t = c THEN all_files \ {f} ELSE all_files)

\* The records of file f in a parsed artifact: how many, and the total_frames
\* of the first of them.
CountOf(f, recs) == Cardinality({i \in DOMAIN recs : recs[i].file = f})
FirstTotalOf(f, recs) ==
    LET first == CHOOSE i \in DOMAIN recs :
                    /\ recs[i].file = f
                    /\ \A j \in DOMAIN recs : recs[j].file = f => i <= j
    IN  recs[first].total_frames

\* A reader that compares the counts once, after the whole artifact is read.
ResumeRemove_FinalCount(recs, all_files) ==
    {f \in all_files :
        ~(CountOf(f, recs) > 0 /\ CountOf(f, recs) = FirstTotalOf(f, recs))}

ResumeRemove(recs, all_files) == ResumeLoop(recs, <<>>, <<>>, all_files)

\* A reader that does not hand the parsed records to the accumulator.
Seeded_Nothing(data, records) == data

\* export_data.lock().unwrap().extend_from_slice(&frames)
Seeded(data, records) == data \o records

\* Which checkpoint paths the reader accepts (exists, is a file, json/csv, parses).
ResumeKinds == {"missing", "notfile", "badext", "noext", "unparsable", "ok"}

VARIABLES
    config,          \* the run's Config and the tree it is run on
    pc,              \* where the driver (process) is
    exit,            \* how the driver returned
    buffer_exists,   \* the staging directory exists
    staged,          \* the staged copies present in the staging directory
    file_paths,      \* the work set
    export_data,     \* the export accumulator
    frames,          \* the correlation map: uuid -> pending ExportFrame
    media_q,         \* the media channel
    media_q_s,       \* the producers' media sender is alive
    io_q,            \* the staging channel
    io,              \* the staging thread: its position, its file, what is left
    worker,          \* per file path: the decode worker's position
    to_send,         \* per file path: the items its worker has still to send
    export_q,        \* the exporter channel
    export_q_s,      \* the driver's exporter sender is alive
    sent_log,        \* every record ever sent on the exporter channel, in order
    checkpoint_counter,
    finish,          \* the exporter thread's finished flag
    artifact,        \* the export artifact on disk
    outbound,        \* the outbound request generator: live, ended, dropped
    requests,        \* uuids of the DetectRequests yielded so far
    answered,        \* uuids the service has answered
    next_uuid,
    inbound_end,     \* how the inbound stream ended, and whether outbound was over
    aborted,         \* the process was aborted by a panic in the rayon pool
    session_token,   \* the token auth returned
    authorization,   \* the authorization metadata of the Detect request
    final_writes,    \* the final writes export_worker has made
    removed,         \* the paths the decode workers have deleted
    map_access       \* the correlation map's lock, and who is about to use it

vars == << config, pc, exit, buffer_exists, staged, file_paths, export_data, frames,
           media_q, media_q_s, io_q, io, worker, to_send, export_q, export_q_s,
           sent_log, checkpoint_counter, finish, artifact, outbound, requests,
           answered, next_uuid, inbound_end, aborted, session_token,
           authorization, final_writes, removed, map_access >>


\* ------------------------------------------------------- correlation map
\* Who holds the lock of the correlation map, where the outbound generator
\* is (at its recv, inserting, at its yield), and the uuid of the response
\* the driver has in hand.
Access(holder, generator, response) ==
    [holder |-> holder, generator |-> generator, response |-> response]
NoAccess == Access("free", "recv", {})

\* ------------------------------------------------------------------- auth
\* The replies the Auth call can get: an AuthResponse, with or without
\* success, or a transport error (a Status).
AuthResponse(success, token) ==
    [kind |-> "response", success |-> success, token |-> token]
SessionToken == "session"
AuthReplies ==
    {AuthResponse(TRUE, SessionToken), AuthResponse(FALSE, ""),
     [kind |-> "status", success |-> FALSE, token |-> ""]}

\* auth: Err on a transport error (.await?), Ok(auth_response.token) on
\* success, Err("Auth failed") otherwise.
auth(reply) ==
    IF reply.kind = "response" /\ reply.success
    THEN [ok |-> TRUE, token |-> reply.token]
    ELSE [ok |-> FALSE, token |-> None]

\* ------------------------------------------------------------------- Init
\* The indexed FileItem of a path of the run's tree.
FileIn(tree, path) == CHOOSE f \in index_files_and_folders(tree) : f.file_path = path
FileOf(path) == FileIn(config.tree, path)

\* The prior artifact of the resume scenario: every frame of X, two of the
\* three frames of Y, as the resume reader parses them.
PartialPrior ==
    LET X == FileIn(TreeVideos, "X.mp4")
        Y == FileIn(TreeVideos, "Y.mp4")
    IN  << ExportFrame(X, 0, 3, Some, Some, None),
           ExportFrame(X, 1, 3, Some, Some, None),
           ExportFrame(X, 2, 3, Some, Some, None),
           ExportFrame(Y, 0, 3, Some, Some, None),
           ExportFrame(Y, 1, 3, Some, Some, None) >>

NoResume == [kind |-> "none", records |-> <<>>]
Rejected(kind) == [kind |-> kind, records |-> <<>>]
Parsed(records) == [kind |-> "ok", records |-> records]

Config(tree, staging, checkpoint, resume_from) ==
    [tree |-> tree, staging |-> staging, checkpoint |-> checkpoint,
     buffer_size |-> BufferSize, resume_from |-> resume_from]

\* The runs: a video and an image from scratch (or with a checkpoint path the
\* reader rejects), two videos resumed from the partial artifact, and a
\* folder without media.
Configs ==
    {Config(TreeMixed, s, c, r) :
        s \in BOOLEAN, c \in {0, CheckpointEvery},
        r \in {NoResume} \cup {Rejected(k) : k \in ResumeKinds \ {"ok"}}}
    \cup {Config(TreeVideos, s, CheckpointEvery, Parsed(PartialPrior)) : s \in BOOLEAN}
    \cup {Config(TreeEmpty, s, CheckpointEvery, NoResume) : s \in BOOLEAN}

InitWith(cfg, at, dir) ==
    /\ config = cfg
    /\ pc = at
    /\ exit = "none"
    /\ buffer_exists = dir
    /\ staged = {}
    /\ file_paths = IF at = "resume" THEN index_files_and_folders(cfg.tree) ELSE {}
    /\ export_data = <<>>
    /\ frames = <<>>
    /\ media_q = <<>>
    /\ media_q_s = FALSE
    /\ io_q = <<>>
    /\ io = [state |-> "none", cur |-> None, todo |-> {}]
    /\ worker = [p \in Paths |-> "idle"]
    /\ to_send = [p \in Paths |-> <<>>]
    /\ export_q = <<>>
    /\ export_q_s = FALSE
    /\ sent_log = <<>>
    /\ checkpoint_counter = 0
    /\ finish = FALSE
    /\ artifact = NoArtifact
    /\ outbound = "none"
    /\ requests = {}
    /\ answered = {}
    /\ next_uuid = 1
    /\ inbound_end = [kind |-> "none", early |-> FALSE]
    /\ aborted = FALSE
    /\ session_token = IF at = "auth" THEN None ELSE SessionToken
    /\ authorization = None
    /\ final_writes = 0
    /\ removed = {}
    /\ map_access = NoAccess

\* A run starts with the staging directory absent, or left over from a run
\* that did not clean up.
Init ==
    \E cfg \in Configs, dir \in BOOLEAN :
        /\ dir => cfg.staging
        /\ InitWith(cfg, "auth", dir)

\* ----------------------------------------------------------------- driver
Spawned == outbound # "none"

\* cleanup_buffer: removes the staging directory when one is configured and
\* it exists.
cleanup_buffer ==
    /\ buffer_exists' = IF config.staging THEN FALSE ELSE buffer_exists
    /\ staged' = IF config.staging THEN {} ELSE staged

\* `return` from process: the locals are dropped, the driver's exporter
\* sender with them.
Return(how) ==
    /\ pc' = "returned"
    /\ exit' = how
    /\ export_q_s' = FALSE

\* A driver that goes on after a failed auth, without a session token.
Auth_IgnoresFailure ==
    /\ pc = "auth"
    /\ \E reply \in AuthReplies :
        /\ pc' = "cleanup"
        /\ session_token' = auth(reply).token
        /\ UNCHANGED << exit, export_q_s >>
    /\ UNCHANGED << config, buffer_exists, staged, file_paths, export_data, frames,
                    media_q, media_q_s, io_q, io, worker, to_send, export_q,
                    sent_log, checkpoint_counter, finish, artifact, outbound,
                    requests, answered, next_uuid, inbound_end, aborted,
                    authorization, final_writes, removed, map_access >>

\* let session_token = auth(&mut client, &config.token).await?
Auth ==
    /\ pc = "auth"
    /\ \E reply \in AuthReplies :
        IF auth(reply).ok
        THEN /\ pc' = "cleanup"
             /\ session_token' = auth(reply).token
             /\ UNCHANGED << exit, export_q_s >>
        ELSE /\ Return("auth_err")
             /\ UNCHANGED session_token
    /\ UNCHANGED << config, buffer_exists, staged, file_paths, export_data, frames,
                    media_q, media_q_s, io_q, io, worker, to_send, export_q,
                    sent_log, checkpoint_counter, finish, artifact, outbound,
                    requests, answered, next_uuid, inbound_end, aborted,
                    authorization, final_writes, removed, map_access >>

\* cleanup_buffer(&config.buffer_path)? at the start of the run.
CleanupAtStart ==
    /\ pc = "cleanup"
    /\ cleanup_buffer
    /\ pc' = "check"
    /\ UNCHANGED << config, exit, file_paths, export_data, frames, media_q,
                    media_q_s, io_q, io, worker, to_send, export_q, export_q_s,
                    sent_log, checkpoint_counter, finish, artifact, outbound,
                    requests, answered, next_uuid, inbound_end, aborted,
                    session_token, authorization, final_writes, removed, map_access >>

\* if config.checkpoint == 0 { return Ok(()) }, then the tree is indexed.
CheckAndIndex ==
    /\ pc = "check"
    /\ IF config.checkpoint = 0
       THEN /\ Return("checkpoint0")
            /\ UNCHANGED file_paths
       ELSE /\ pc' = "resume"
            /\ file_paths' = index_files_and_folders(config.tree)
            /\ UNCHANGED << exit, export_q_s >>
    /\ UNCHANGED << config, buffer_exists, staged, export_data, frames, media_q,
                    media_q_s, io_q, io, worker, to_send, export_q,
                    sent_log, checkpoint_counter, finish, artifact, outbound,
                    requests, answered, next_uuid, inbound_end, aborted,
                    session_token, authorization, final_writes, removed, map_access >>

\* A driver that goes on with the indexed work set when the resume reader
\* has returned an error.
Resume_IgnoresRejection ==
    /\ pc = "resume"
    /\ pc' = "spawn"
    /\ LET r == config.resume_from IN
       IF r.kind = "ok"
       THEN /\ file_paths' = ResumeRemove(r.records, file_paths)
            /\ export_data' = Seeded(export_data, r.records)
       ELSE UNCHANGED << file_paths, export_data >>
    /\ UNCHANGED << config, exit, export_q_s, buffer_exists, staged, frames,
                    media_q, media_q_s, io_q, io, worker, to_send, export_q,
                    sent_log, checkpoint_counter, finish, artifact, outbound,
                    requests, answered, next_uuid, inbound_end, aborted,
                    session_token, authorization, final_writes, removed, map_access >>

\* resume_from_checkpoint(...)?  when config.resume_from is set.
Resume ==
    /\ pc = "resume"
    /\ LET r == config.resume_from IN
       IF r.kind = "none"
       THEN /\ pc' = "spawn"
            /\ UNCHANGED << exit, export_q_s, file_paths, export_data >>
       ELSE IF r.kind = "ok"
       THEN /\ pc' = "spawn"
            /\ file_paths' = ResumeRemove(r.records, file_paths)
            /\ export_data' = Seeded(export_data, r.records)
            /\ UNCHANGED << exit, export_q_s >>
       ELSE /\ Return("resume_err")
            /\ UNCHANGED << file_paths, export_data >>
    /\ UNCHANGED << config, buffer_exists, staged, frames, media_q,
                    media_q_s, io_q, io, worker, to_send, export_q,
                    sent_log, checkpoint_counter, finish, artifact, outbound,
                    requests, answered, next_uuid, inbound_end, aborted,
                    session_token, authorization, final_writes, removed, map_access >>

WorkPaths == {f.file_path : f \in file_paths}

\* The channels are created; the exporter thread, the producers and the
\* outbound generator are started; client.detect(request) is called.
Spawn ==
    /\ pc = "spawn"
    /\ pc' = "detect"
    /\ media_q_s' = TRUE
    /\ export_q_s' = TRUE
    /\ outbound' = "live"
    /\ worker' = [p \in Paths |-> IF p \in WorkPaths THEN "todo" ELSE "idle"]
    /\ io' = IF config.staging
             THEN [state |-> "spawned", cur |-> None, todo |-> WorkPaths]
             ELSE io
    /\ UNCHANGED << config, exit, buffer_exists, staged, file_paths, export_data,
                    frames, media_q, io_q, to_send, export_q, sent_log,
                    checkpoint_counter, finish, artifact, requests, answered,
                    next_uuid, inbound_end, aborted,
                    session_token, authorization, final_writes, removed, map_access >>


\* ---------------------------------------------------------- media channel
Frame(file, frame_index, total_frames) ==
    [type |-> "Frame", file |-> file, frame_index |-> frame_index,
     total_frames |-> total_frames]

ErrFile(file) ==
    [type |-> "ErrFile", file |-> file, frame_index |-> 0, total_frames |-> 0]

\* The FileItem a decode worker is handed: the indexed one, or the staged one
\* the staging thread made of it.
StagedItem(path) == [FileOf(path) EXCEPT !.tmp_path = StagedPath(path)]
ItemOf(path) == IF config.staging THEN StagedItem(path) ELSE FileOf(path)

\* A handle_ffmpeg_output that reports the length of the decoded list as
\* total_frames.
SampledFrames_TotalDecoded(file, n, max_frames) ==
    LET idx == sample_evenly(n, max_frames)
    IN  [i \in 1..Len(idx) |-> Frame(file, idx[i], n)]

\* handle_ffmpeg_output on a decoded frame list of length n: the sampled
\* frames, each with its index and the number of sampled frames.
SampledFrames(file, n, max_frames) ==
    LET idx == sample_evenly(n, max_frames)
    IN  [i \in 1..Len(idx) |-> Frame(file, idx[i], Len(idx))]

VideoFrames(file, n) == SampledFrames(file, n, MaxFrames)

\* What decoding can come to: an error, a frame list of some length, a frame
\* list without the stream's dimensions, a transcoder that could not be
\* spawned.
Outcome(kind, n) == [kind |-> kind, n |-> n]
DecodeOutcomes ==
    {Outcome("err", 0), Outcome("nodims", 0), Outcome("nospawn", 0)}
    \cup {Outcome("ok", n) : n \in 0..MaxDecoded}

\* The outcomes media_worker panics on: expect on the missing width or height
\* in handle_ffmpeg_output, unwrap on the Err that process_video returns when
\* create_ffmpeg_command fails.
Panics(outcome) == outcome.kind \in {"nodims", "nospawn"}

\* The items media_worker has to send for a file, given how decoding went.
Produced(path, outcome) ==
    IF outcome.kind = "err" THEN << ErrFile(ItemOf(path)) >>
    ELSE IF IsImage(path) THEN << Frame(ItemOf(path), 0, 1) >>
    ELSE VideoFrames(ItemOf(path), outcome.n)

\* A media_worker that removes tmp_path without comparing it to file_path.
Removes_Always(item) == {item.tmp_path}

\* What media_worker deletes once the item is processed: tmp_path, when it
\* differs from file_path.
Removes(item) ==
    IF item.file_path # item.tmp_path THEN {item.tmp_path} ELSE {}

\* media_worker returns: a staged copy is removed first.
AfterSends(path) == IF Removes(ItemOf(path)) # {} THEN "removing" ELSE "done"

\* media_worker starts on a file: it decodes, and knows what it will send.
\* A panic aborts the process: it leaves a closure given to rayon::spawn, and
\* no panic handler is registered.
StartOn(path, outcome) ==
    /\ outcome \in (IF IsVideo(path) THEN DecodeOutcomes
                    ELSE {Outcome("err", 0), Outcome("ok", 1)})
    /\ (config.staging /\ path \notin staged) => outcome.kind = "err"
    /\ IF Panics(outcome)
       THEN /\ aborted' = TRUE
            /\ worker' = [worker EXCEPT ![path] = "panicked"]
            /\ UNCHANGED to_send
       ELSE /\ to_send' = [to_send EXCEPT ![path] = Produced(path, outcome)]
            /\ worker' = [worker EXCEPT ![path] =
                            IF Produced(path, outcome) = <<>>
                            THEN AfterSends(path) ELSE "sending"]
            /\ UNCHANGED aborted

\* par_iter: any file of the work set not yet started.
MediaStart(path, outcome) ==
    /\ ~aborted /\ Spawned /\ ~config.staging
    /\ worker[path] = "todo"
    /\ StartOn(path, outcome)
    /\ UNCHANGED << config, pc, exit, buffer_exists, staged, file_paths,
                    export_data, frames, media_q, media_q_s, io_q, io, export_q,
                    export_q_s, sent_log, checkpoint_counter, finish, artifact,
                    outbound, requests, answered, next_uuid, inbound_end,
                    session_token, authorization, final_writes, removed, map_access >>

\* par_bridge: the next file of the staging channel.
MediaStartStaged(outcome) ==
    /\ ~aborted /\ Spawned /\ config.staging
    /\ io_q # <<>>
    /\ LET path == Head(io_q).file_path IN
        /\ worker[path] = "todo"
        /\ StartOn(path, outcome)
    /\ io_q' = Tail(io_q)
    /\ UNCHANGED << config, pc, exit, buffer_exists, staged, file_paths,
                    export_data, frames, media_q, media_q_s, io, export_q,
                    export_q_s, sent_log, checkpoint_counter, finish, artifact,
                    outbound, requests, answered, next_uuid, inbound_end,
                    session_token, authorization, final_writes, removed, map_access >>

\* One send on the media channel.  It blocks while the channel is full.  With
\* the receiver gone it fails: process_image logs that, handle_ffmpeg_output
\* panics (expect), which aborts the process.
MediaSend(path) ==
    /\ ~aborted
    /\ worker[path] = "sending"
    /\ IF outbound = "live"
       THEN /\ Len(media_q) < MediaCap
            /\ media_q' = Append(media_q, Head(to_send[path]))
            /\ to_send' = [to_send EXCEPT ![path] = Tail(@)]
            /\ worker' = [worker EXCEPT ![path] =
                            IF Tail(to_send[path]) = <<>>
                            THEN AfterSends(path) ELSE "sending"]
            /\ UNCHANGED aborted
       ELSE IF IsVideo(path)
       THEN /\ aborted' = TRUE
            /\ UNCHANGED << media_q, to_send, worker >>
       ELSE /\ to_send' = [to_send EXCEPT ![path] = <<>>]
            /\ worker' = [worker EXCEPT ![path] = AfterSends(path)]
            /\ UNCHANGED << media_q, aborted >>
    /\ UNCHANGED << config, pc, exit, buffer_exists, staged, file_paths,
                    export_data, frames, media_q_s, io_q, io, export_q,
                    export_q_s, sent_log, checkpoint_counter, finish, artifact,
                    outbound, requests, answered, next_uuid, inbound_end,
                    session_token, authorization, final_writes, removed, map_access >>

\* remove_file_with_retries on the staged copy (tmp_path differs from
\* file_path only for a staged item).
MediaRemove(path) ==
    /\ ~aborted
    /\ worker[path] = "removing"
    /\ removed' = removed \cup Removes(ItemOf(path))
    /\ staged' = {p \in staged : StagedPath(p) \notin Removes(ItemOf(path))}
    /\ worker' = [worker EXCEPT ![path] = "done"]
    /\ UNCHANGED << config, pc, exit, buffer_exists, file_paths, export_data,
                    frames, media_q, media_q_s, io_q, io, to_send, export_q,
                    export_q_s, sent_log, checkpoint_counter, finish, artifact,
                    outbound, requests, answered, next_uuid, inbound_end, aborted,
                    session_token, authorization, final_writes, map_access >>

NoWorkerRunning == \A p \in Paths : worker[p] \notin {"sending", "removing"}

\* Producers that drop their media sender only after some file was done.
ProducersEnd_AfterWork ==
    /\ ~aborted /\ Spawned
    /\ media_q_s
    /\ NoWorkerRunning
    /\ \E p \in Paths : worker[p] = "done"
    /\ IF config.staging
       THEN io.state = "done" /\ io_q = <<>>
       ELSE \A p \in Paths : worker[p] # "todo"
    /\ media_q_s' = FALSE
    /\ UNCHANGED << config, pc, exit, buffer_exists, staged, file_paths,
                    export_data, frames, media_q, io_q, io, worker, to_send,
                    export_q, export_q_s, sent_log, checkpoint_counter, finish,
                    artifact, outbound, requests, answered, next_uuid,
                    inbound_end, aborted,
                    session_token, authorization, final_writes, removed, map_access >>

\* The closure given to rayon::spawn ends and its media sender is dropped:
\* after par_iter has run every file, or, with staging, after the staging
\* channel is closed and drained and the staging thread is joined.
ProducersEnd ==
    /\ ~aborted /\ Spawned
    /\ media_q_s
    /\ NoWorkerRunning
    /\ IF config.staging
       THEN io.state = "done" /\ io_q = <<>>
       ELSE \A p \in Paths : worker[p] # "todo"
    /\ media_q_s' = FALSE
    /\ UNCHANGED << config, pc, exit, buffer_exists, staged, file_paths,
                    export_data, frames, media_q, io_q, io, worker, to_send,
                    export_q, export_q_s, sent_log, checkpoint_counter, finish,
                    artifact, outbound, requests, answered, next_uuid,
                    inbound_end, aborted,
                    session_token, authorization, final_writes, removed, map_access >>

\* ---------------------------------------------------------------- staging
\* The staging closure starts: create_dir_all, then the staging thread.
StageStart ==
    /\ ~aborted
    /\ io.state = "spawned"
    /\ buffer_exists' = TRUE
    /\ io' = [io EXCEPT !.state = "running"]
    /\ UNCHANGED << config, pc, exit, staged, file_paths, export_data, frames,
                    media_q, media_q_s, io_q, worker, to_send, export_q,
                    export_q_s, sent_log, checkpoint_counter, finish, artifact,
                    outbound, requests, answered, next_uuid, inbound_end, aborted,
                    session_token, authorization, final_writes, removed, map_access >>

\* io_worker, first half: the file is copied into the staging directory.  A
\* copy that fails (it always does once the directory is gone) is logged and
\* the file skipped.
IoCopy(path, copied) ==
    /\ ~aborted
    /\ io.state = "running" /\ io.cur = None
    /\ path \in io.todo
    /\ copied \in BOOLEAN
    /\ IF buffer_exists /\ copied
       THEN /\ staged' = staged \cup {path}
            /\ io' = [io EXCEPT !.cur = path]
       ELSE /\ io' = [io EXCEPT !.todo = @ \ {path}]
            /\ UNCHANGED staged
    /\ UNCHANGED << config, pc, exit, buffer_exists, file_paths, export_data,
                    frames, media_q, media_q_s, io_q, worker, to_send, export_q,
                    export_q_s, sent_log, checkpoint_counter, finish, artifact,
                    outbound, requests, answered, next_uuid, inbound_end, aborted,
                    session_token, authorization, final_writes, removed, map_access >>

\* io_worker, second half: the staged FileItem is pushed on the staging
\* channel, which blocks while the channel is full.
IoPush ==
    /\ ~aborted
    /\ io.state = "running" /\ io.cur # None
    /\ Len(io_q) < config.buffer_size
    /\ io_q' = Append(io_q, StagedItem(io.cur))
    /\ io' = [io EXCEPT !.cur = None, !.todo = @ \ {io.cur}]
    /\ UNCHANGED << config, pc, exit, buffer_exists, staged, file_paths,
                    export_data, frames, media_q, media_q_s, worker, to_send,
                    export_q, export_q_s, sent_log, checkpoint_counter, finish,
                    artifact, outbound, requests, answered, next_uuid,
                    inbound_end, aborted,
                    session_token, authorization, final_writes, removed, map_access >>

\* A staging thread that may end with files of the work set still to do.
IoEnd_Early ==
    /\ ~aborted
    /\ io.state = "running" /\ io.cur = None
    /\ io' = [io EXCEPT !.state = "done"]
    /\ UNCHANGED << config, pc, exit, buffer_exists, staged, file_paths,
                    export_data, frames, media_q, media_q_s, io_q, worker,
                    to_send, export_q, export_q_s, sent_log, checkpoint_counter,
                    finish, artifact, outbound, requests, answered, next_uuid,
                    inbound_end, aborted,
                    session_token, authorization, final_writes, removed, map_access >>

\* The staging thread has gone through the work set: drop(io_q_s).
IoEnd ==
    /\ ~aborted
    /\ io.state = "running" /\ io.cur = None /\ io.todo = {}
    /\ io' = [io EXCEPT !.state = "done"]
    /\ UNCHANGED << config, pc, exit, buffer_exists, staged, file_paths,
                    export_data, frames, media_q, media_q_s, io_q, worker,
                    to_send, export_q, export_q_s, sent_log, checkpoint_counter,
                    finish, artifact, outbound, requests, answered, next_uuid,
                    inbound_end, aborted,
                    session_token, authorization, final_writes, removed, map_access >>


\* ------------------------------------------------------ outbound generator
\* The transport may poll the request stream from the moment client.detect
\* is called; once the response stream is over it may go on, or not.
RpcOpen == pc \in {"detect", "inbound"}
InboundOver == inbound_end.kind # "none"

Pending(item) ==
    ExportFrame(item.file, item.frame_index, item.total_frames, None, None, None)

\* An error record that leaves the error out.
ErrorFrame_NoError(item) == ExportFrame(item.file, 0, 0, None, None, None)

ErrorFrame(item) == ExportFrame(item.file, 0, 0, None, None, Some)

\* A generator that keeps one uuid for every Frame.
OutboundPoll_SameUuid ==
    /\ ~aborted
    /\ outbound = "live"
    /\ RpcOpen \/ InboundOver
    /\ media_q # <<>>
    /\ LET item == Head(media_q) IN
       IF item.type = "Frame"
       THEN /\ frames' = [u \in DOMAIN frames \cup {1} |-> Pending(item)]
            /\ requests' = requests \cup {1}
            /\ next_uuid' = 2
            /\ UNCHANGED << export_q, sent_log >>
       ELSE /\ export_q' = Append(export_q, ErrorFrame(item))
            /\ sent_log' = Append(sent_log, ErrorFrame(item))
            /\ UNCHANGED << frames, requests, next_uuid >>
    /\ media_q' = Tail(media_q)
    /\ UNCHANGED << config, pc, exit, buffer_exists, staged, file_paths,
                    export_data, media_q_s, io_q, io, worker, to_send,
                    export_q_s, checkpoint_counter, finish, artifact, outbound,
                    answered, inbound_end, aborted,
                    session_token, authorization, final_writes, removed, map_access >>

\* One turn of `while let Ok(item) = media_q_r.recv()`.
\* Frame: a fresh uuid, the pending record is inserted into the map, the
\* DetectRequest is yielded.  ErrFile: the error record goes to the exporter.
OutboundPoll ==
    /\ ~aborted
    /\ outbound = "live"
    /\ RpcOpen \/ InboundOver
    /\ media_q # <<>>
    /\ LET item == Head(media_q) IN
       IF item.type = "Frame"
       THEN /\ frames' = (next_uuid :> Pending(item)) @@ frames
            /\ requests' = requests \cup {next_uuid}
            /\ next_uuid' = next_uuid + 1
            /\ UNCHANGED << export_q, sent_log >>
       ELSE /\ export_q' = Append(export_q, ErrorFrame(item))
            /\ sent_log' = Append(sent_log, ErrorFrame(item))
            /\ UNCHANGED << frames, requests, next_uuid >>
    /\ media_q' = Tail(media_q)
    /\ UNCHANGED << config, pc, exit, buffer_exists, staged, file_paths,
                    export_data, media_q_s, io_q, io, worker, to_send,
                    export_q_s, checkpoint_counter, finish, artifact, outbound,
                    answered, inbound_end, aborted,
                    session_token, authorization, final_writes, removed, map_access >>

\* recv() fails: the channel is empty and every sender is dropped.  The
\* generator ends and drops what it owns, its exporter sender included.
OutboundEnd ==
    /\ ~aborted
    /\ outbound = "live"
    /\ RpcOpen \/ InboundOver
    /\ media_q = <<>> /\ ~media_q_s
    /\ outbound' = "ended"
    /\ UNCHANGED << config, pc, exit, buffer_exists, staged, file_paths,
                    export_data, frames, media_q, media_q_s, io_q, io, worker,
                    to_send, export_q, export_q_s, sent_log, checkpoint_counter,
                    finish, artifact, requests, answered, next_uuid,
                    inbound_end, aborted,
                    session_token, authorization, final_writes, removed, map_access >>

\* The transport drops the request stream of a call that is over (Detect
\* failed to open, or the response stream ended): the generator's media
\* receiver and exporter sender go with it.
TransportDrop ==
    /\ ~aborted
    /\ outbound = "live"
    /\ exit = "detect_err" \/ InboundOver
    /\ outbound' = "dropped"
    /\ media_q' = <<>>
    /\ UNCHANGED << config, pc, exit, buffer_exists, staged, file_paths,
                    export_data, frames, media_q_s, io_q, io, worker, to_send,
                    export_q, export_q_s, sent_log, checkpoint_counter, finish,
                    artifact, requests, answered, next_uuid, inbound_end, aborted,
                    session_token, authorization, final_writes, removed, map_access >>

\* ----------------------------------------------------------- driver, RPC
\* The request is given the session token as its authorization metadata;
\* client.detect(request).await: Ok, or Err(status): cleanup_buffer, return.
DetectOpen ==
    /\ ~aborted
    /\ pc = "detect"
    /\ authorization' = session_token
    /\ \E ok \in BOOLEAN :
        IF ok THEN /\ pc' = "inbound"
                   /\ UNCHANGED << exit, export_q_s, buffer_exists, staged >>
              ELSE /\ cleanup_buffer
                   /\ Return("detect_err")
    /\ UNCHANGED << config, file_paths, export_data, frames, media_q, media_q_s,
                    io_q, io, worker, to_send, export_q, sent_log,
                    checkpoint_counter, finish, artifact, outbound, requests,
                    answered, next_uuid, inbound_end, aborted, session_token,
                    final_writes, removed, map_access >>

\* A merge that fills in the bboxes and leaves the label out.
Merged_NoLabel(frame) == [frame EXCEPT !.bboxes = Some]

\* A merge that sends the pending record on as it is.
Merged_Unfilled(frame) == frame

\* The bboxes and the label of a response are merged into the pending record.
Merged(frame) == [frame EXCEPT !.bboxes = Some, !.label = Some]

\* An inbound loop that looks the record up and leaves it in the map, so
\* that every response for the uuid is exported.
InboundResponse_KeepsEntry(uuid) ==
    /\ ~aborted
    /\ pc = "inbound"
    /\ uuid \in requests
    /\ answered' = answered \cup {uuid}
    /\ IF uuid \in DOMAIN frames
       THEN /\ export_q' = Append(export_q, Merged(frames[uuid]))
            /\ sent_log' = Append(sent_log, Merged(frames[uuid]))
            /\ UNCHANGED frames
       ELSE UNCHANGED << frames, export_q, sent_log >>
    /\ UNCHANGED << config, pc, exit, buffer_exists, staged, file_paths,
                    export_data, media_q, media_q_s, io_q, io, worker, to_send,
                    export_q_s, checkpoint_counter, finish, artifact, outbound,
                    requests, next_uuid, inbound_end, aborted,
                    session_token, authorization, final_writes, removed, map_access >>

\* Ok(Some(response)): the service answers one of the requests it has got.
\* frames.remove(&uuid); on a hit the merged record is sent to the exporter.
InboundResponse(uuid) ==
    /\ ~aborted
    /\ pc = "inbound"
    /\ uuid \in requests \ answered
    /\ answered' = answered \cup {uuid}
    /\ IF uuid \in DOMAIN frames
       THEN /\ frames' = [u \in DOMAIN frames \ {uuid} |-> frames[u]]
            /\ export_q' = Append(export_q, Merged(frames[uuid]))
            /\ sent_log' = Append(sent_log, Merged(frames[uuid]))
       ELSE UNCHANGED << frames, export_q, sent_log >>
    /\ UNCHANGED << config, pc, exit, buffer_exists, staged, file_paths,
                    export_data, media_q, media_q_s, io_q, io, worker, to_send,
                    export_q_s, checkpoint_counter, finish, artifact, outbound,
                    requests, next_uuid, inbound_end, aborted,
                    session_token, authorization, final_writes, removed, map_access >>

\* A driver that goes to wait for the finished flag with its exporter sender
\* still alive.
InboundEnd_KeepsSender(kind) ==
    /\ ~aborted
    /\ pc = "inbound"
    /\ kind \in {"eos", "err"}
    /\ inbound_end' = [kind |-> kind, early |-> outbound = "live"]
    /\ pc' = "wait"
    /\ UNCHANGED << config, exit, buffer_exists, staged, file_paths, export_data,
                    frames, media_q, media_q_s, io_q, io, worker, to_send,
                    export_q, export_q_s, sent_log, checkpoint_counter, finish,
                    artifact, outbound, requests, answered, next_uuid, aborted,
                    session_token, authorization, final_writes, removed, map_access >>

\* Ok(None) or Err(e): drop(export_q_s), then wait for the finished flag.
InboundEnd(kind) ==
    /\ ~aborted
    /\ pc = "inbound"
    /\ kind \in {"eos", "err"}
    /\ inbound_end' = [kind |-> kind, early |-> outbound = "live"]
    /\ export_q_s' = FALSE
    /\ pc' = "wait"
    /\ UNCHANGED << config, exit, buffer_exists, staged, file_paths, export_data,
                    frames, media_q, media_q_s, io_q, io, worker, to_send,
                    export_q, sent_log, checkpoint_counter, finish, artifact,
                    outbound, requests, answered, next_uuid, aborted,
                    session_token, authorization, final_writes, removed, map_access >>

\* A driver that does its final export without waiting for the finished
\* flag.
FinalExport_NoWait ==
    /\ ~aborted
    /\ pc = "wait"
    /\ \E ok \in BOOLEAN :
        IF ok THEN /\ artifact' = WriteArtifact(export_data)
                   /\ pc' = "cleanup_end"
                   /\ UNCHANGED << exit, export_q_s >>
              ELSE /\ Return("export_err")
                   /\ UNCHANGED artifact
    /\ UNCHANGED << config, buffer_exists, staged, file_paths, export_data,
                    frames, media_q, media_q_s, io_q, io, worker, to_send,
                    export_q, sent_log, checkpoint_counter, finish, outbound,
                    requests, answered, next_uuid, inbound_end, aborted,
                    session_token, authorization, final_writes, removed, map_access >>

\* The wait loop sees finish = true; export::export(...)? writes the
\* accumulator, or fails and the driver returns the error.
FinalExport ==
    /\ ~aborted
    /\ pc = "wait"
    /\ finish
    /\ \E ok \in BOOLEAN :
        IF ok THEN /\ artifact' = WriteArtifact(export_data)
                   /\ pc' = "cleanup_end"
                   /\ UNCHANGED << exit, export_q_s >>
              ELSE /\ Return("export_err")
                   /\ UNCHANGED artifact
    /\ UNCHANGED << config, buffer_exists, staged, file_paths, export_data,
                    frames, media_q, media_q_s, io_q, io, worker, to_send,
                    export_q, sent_log, checkpoint_counter, finish, outbound,
                    requests, answered, next_uuid, inbound_end, aborted,
                    session_token, authorization, final_writes, removed, map_access >>

\* A driver that removes the staging directory and returns as soon as the
\* finished flag is set, without the final export.
CleanupAtEnd_NoExport ==
    /\ ~aborted
    /\ pc \in {"wait", "cleanup_end"}
    /\ finish
    /\ cleanup_buffer
    /\ Return(inbound_end.kind)
    /\ UNCHANGED << config, file_paths, export_data, frames, media_q, media_q_s,
                    io_q, io, worker, to_send, export_q, sent_log,
                    checkpoint_counter, finish, artifact, outbound, requests,
                    answered, next_uuid, inbound_end, aborted,
                    session_token, authorization, final_writes, removed, map_access >>

\* cleanup_buffer(&config.buffer_path)?; break; Ok(())
CleanupAtEnd ==
    /\ ~aborted
    /\ pc = "cleanup_end"
    /\ cleanup_buffer
    /\ Return(inbound_end.kind)
    /\ UNCHANGED << config, file_paths, export_data, frames, media_q, media_q_s,
                    io_q, io, worker, to_send, export_q, sent_log,
                    checkpoint_counter, finish, artifact, outbound, requests,
                    answered, next_uuid, inbound_end, aborted,
                    session_token, authorization, final_writes, removed, map_access >>

\* --------------------------------------------------------------- exporter
\* export_worker: one record is received and appended to the accumulator;
\* every `checkpoint` records the accumulator is written to the artifact.
\* An exporter that writes the checkpoint before it appends the record.
ExportWorkerStep_WriteFirst(checkpoint, counter, data, record) ==
    [data    |-> Append(data, record),
     counter |-> counter + 1,
     write   |-> (counter + 1) % checkpoint = 0,
     written |-> data]

ExportWorkerStep(checkpoint, counter, data, record) ==
    [data    |-> Append(data, record),
     counter |-> counter + 1,
     write   |-> (counter + 1) % checkpoint = 0,
     written |-> Append(data, record)]

ExportRecv ==
    /\ ~aborted
    /\ export_q # <<>>
    /\ LET r == ExportWorkerStep(config.checkpoint, checkpoint_counter,
                                 export_data, Head(export_q)) IN
        /\ export_data' = r.data
        /\ checkpoint_counter' = r.counter
        /\ artifact' = IF r.write THEN WriteArtifact(r.written) ELSE artifact
    /\ export_q' = Tail(export_q)
    /\ UNCHANGED << config, pc, exit, buffer_exists, staged, file_paths, frames,
                    media_q, media_q_s, io_q, io, worker, to_send, export_q_s,
                    sent_log, finish, outbound, requests, answered, next_uuid,
                    inbound_end, aborted,
                    session_token, authorization, final_writes, removed, map_access >>

\* Every sender of the exporter channel is dropped and the channel is empty.
ExportClosed == Spawned /\ ~export_q_s /\ outbound # "live" /\ export_q = <<>>

\* export_worker finds its channel closed and empty and leaves its loop: it
\* writes the accumulator to the artifact one last time.
ExportFinalWrite ==
    /\ ~aborted
    /\ ExportClosed
    /\ final_writes = 0
    /\ final_writes' = 1
    /\ artifact' = WriteArtifact(export_data)
    /\ UNCHANGED << config, pc, exit, buffer_exists, staged, file_paths,
                    export_data, frames, media_q, media_q_s, io_q, io, worker,
                    to_send, export_q, export_q_s, sent_log, checkpoint_counter,
                    finish, outbound, requests, answered, next_uuid,
                    inbound_end, aborted, session_token, authorization,
                    removed, map_access >>

\* An exporter thread that sets the finished flag before the final write.
ExportFinish_BeforeWrite ==
    /\ ~aborted
    /\ ExportClosed
    /\ ~finish
    /\ finish' = TRUE
    /\ UNCHANGED << config, pc, exit, buffer_exists, staged, file_paths,
                    export_data, frames, media_q, media_q_s, io_q, io, worker,
                    to_send, export_q, export_q_s, sent_log, checkpoint_counter,
                    artifact, outbound, requests, answered, next_uuid,
                    inbound_end, aborted,
                    session_token, authorization, final_writes, removed, map_access >>

\* export_worker has returned and the exporter thread sets the finished flag.
ExportFinish ==
    /\ ~aborted
    /\ ExportClosed
    /\ final_writes = 1
    /\ ~finish
    /\ finish' = TRUE
    /\ UNCHANGED << config, pc, exit, buffer_exists, staged, file_paths,
                    export_data, frames, media_q, media_q_s, io_q, io, worker,
                    to_send, export_q, export_q_s, sent_log, checkpoint_counter,
                    artifact, outbound, requests, answered, next_uuid,
                    inbound_end, aborted,
                    session_token, authorization, final_writes, removed, map_access >>

\* ------------------------------------------------------------------- Next
Next ==
    \/ Auth
    \/ CleanupAtStart
    \/ CheckAndIndex
    \/ Resume
    \/ Spawn
    \/ \E p \in Paths, o \in DecodeOutcomes : MediaStart(p, o)
    \/ \E o \in DecodeOutcomes : MediaStartStaged(o)
    \/ \E p \in Paths : MediaSend(p)
    \/ \E p \in Paths : MediaRemove(p)
    \/ ProducersEnd
    \/ StageStart
    \/ \E p \in Paths, copied \in BOOLEAN : IoCopy(p, copied)
    \/ IoPush
    \/ IoEnd
    \/ OutboundPoll
    \/ OutboundEnd
    \/ TransportDrop
    \/ DetectOpen
    \/ \E u \in requests : InboundResponse(u)
    \/ \E k \in {"eos", "err"} : InboundEnd(k)
    \/ FinalExport
    \/ CleanupAtEnd
    \/ ExportRecv
    \/ ExportFinalWrite
    \/ ExportFinish

Spec == Init /\ [][Next]_vars


\* ------------------------------------------------------------ fairness
\* The threads and the driver keep running; the transport polls the request
\* stream while the call is open; the service ends the response stream once
\* the request stream has ended.  Nothing obliges the transport to poll or to
\* drop the request stream of a call whose response stream is over.
Fairness ==
    /\ WF_vars(Auth) /\ WF_vars(CleanupAtStart) /\ WF_vars(CheckAndIndex)
    /\ WF_vars(Resume) /\ WF_vars(Spawn) /\ WF_vars(DetectOpen)
    /\ WF_vars(FinalExport) /\ WF_vars(CleanupAtEnd)
    /\ WF_vars(\E p \in Paths, o \in DecodeOutcomes : MediaStart(p, o))
    /\ WF_vars(\E o \in DecodeOutcomes : MediaStartStaged(o))
    /\ \A p \in Paths : WF_vars(MediaSend(p)) /\ WF_vars(MediaRemove(p))
    /\ WF_vars(ProducersEnd) /\ WF_vars(StageStart)
    /\ WF_vars(\E p \in Paths, copied \in BOOLEAN : IoCopy(p, copied))
    /\ WF_vars(IoPush) /\ WF_vars(IoEnd)
    /\ WF_vars(RpcOpen /\ OutboundPoll) /\ WF_vars(RpcOpen /\ OutboundEnd)
    /\ WF_vars(outbound = "ended" /\ \E k \in {"eos", "err"} : InboundEnd(k))
    /\ WF_vars(ExportRecv) /\ WF_vars(ExportFinalWrite)
    /\ WF_vars(ExportFinish)

FairSpec == Init /\ [][Next]_vars /\ Fairness

\* ------------------------------------------------------------------ claims
Records == {artifact.records[i] : i \in DOMAIN artifact.records}
RecordsOf(f) == {r \in Records : r.file.file_path = f.file_path}

HasBboxes(f) == \E r \in RecordsOf(f) : r.bboxes # None
HasError(f) == \E r \in RecordsOf(f) : r.error # None
TransportError == exit \in {"err", "detect_err"}
\* The run ended by a transport error with nothing received for the file.
CutShort(f) == TransportError /\ ~HasBboxes(f) /\ ~HasError(f)

Completed == pc = "returned" /\ exit \in {"eos", "err", "detect_err"}

\* C1: at completion every file of the work set has exactly one of: a record
\* with bboxes in the artifact, a record with an error in the artifact, a
\* transport error that ended the run before its response; never none.
C1_EveryFileAccounted ==
    Completed =>
        \A f \in file_paths :
            /\ HasBboxes(f) \/ HasError(f) \/ CutShort(f)
            /\ ~(HasBboxes(f) /\ HasError(f))

\* C3: a transport error during Detect, the failure to open the stream
\* included, leaves every record the exporter holds in the final artifact
\* when the driver returns.
Held == {SerializeFrame(export_data[i]) : i \in DOMAIN export_data}
            \cup {SerializeFrame(export_q[i]) : i \in DOMAIN export_q}

C3_TransportErrorDrains ==
    (pc = "returned" /\ TransportError) =>
        /\ ~export_q_s
        /\ Held \subseteq Records

\* C4: with staging configured the staging directory does not exist once the
\* run has terminated, whatever the exit path.
C4_NoStagingDirAfterRun ==
    (config.staging /\ pc = "returned") => ~buffer_exists

\* C5: when the pipeline is Done (end of the inbound stream handled, export
\* finalized, driver returned) the correlation map is empty.
C5_MapEmptyAtDone ==
    (pc = "returned" /\ exit = "eos") => DOMAIN frames = {}


\* C2: once the inbound stream has yielded an error or its end, at any point
\* of the run, the exporter channel closes, the exporter sets its finished
\* flag and the driver finalizes the export and returns: it does not wait
\* for the flag forever.  (A run the process aborts is left out of account.)
C2_DrainTerminates == InboundOver ~> (pc = "returned" \/ aborted)

\* C6: on the normal path (Detect opens, no worker panics, the service ends
\* the inbound stream only after the outbound stream has ended) the shutdown
\* events happen in order -- producers finish, the media channel closes, the
\* outbound stream ends, the service closes the inbound stream, the driver
\* drains, the exporter channel closes, the exporter finishes, the driver
\* returns -- and every one of them eventually happens, with and without
\* staging.
NormalPath == ~aborted /\ ~inbound_end.early /\ exit # "detect_err"

ProducersFinished ==
    /\ NoWorkerRunning
    /\ IF config.staging THEN io.state = "done" /\ io_q = <<>>
       ELSE \A p \in Paths : worker[p] # "todo"
MediaClosed == Spawned /\ ~media_q_s
OutboundEnded == outbound = "ended"
Draining ==
    \/ pc \in {"wait", "cleanup_end"}
    \/ pc = "returned" /\ exit \in {"eos", "err", "export_err"}
ExporterChannelClosed == Spawned /\ ~export_q_s /\ outbound # "live"
DriverReturned == pc = "returned" /\ exit \in {"eos", "err", "export_err"}

ShutdownOrder ==
    /\ MediaClosed => ProducersFinished
    /\ OutboundEnded => MediaClosed /\ media_q = <<>>
    /\ InboundOver => OutboundEnded
    /\ Draining => InboundOver
    /\ ExporterChannelClosed => Draining
    /\ finish => ExporterChannelClosed /\ export_q = <<>>
    /\ DriverReturned => finish

C6_ShutdownSequence ==
    /\ [](NormalPath => ShutdownOrder)
    /\ (pc = "detect") ~> (DriverReturned \/ ~NormalPath)

C6_NormalShutdownWithStaging ==
    /\ config.staging /\ NormalPath
    /\ pc = "returned" /\ exit = "eos"
    /\ requests # {} /\ answered = requests

\* C7: after a checkpoint write (every CheckpointEvery-th record the exporter
\* receives) the artifact on disk holds every record the exporter has
\* received so far, after the records the resume reader seeded.
SerializeAll(data) == [i \in 1..Len(data) |-> SerializeFrame(data[i])]
Received == SubSeq(sent_log, 1, checkpoint_counter)

C7_CheckpointComplete ==
    (checkpoint_counter > 0 /\ checkpoint_counter % config.checkpoint = 0) =>
        /\ artifact.written
        /\ artifact.records = SerializeAll(config.resume_from.records \o Received)

C7_CheckpointWritten ==
    /\ pc = "inbound"
    /\ checkpoint_counter = CheckpointEvery
    /\ artifact.written
    /\ Len(sent_log) > checkpoint_counter

\* C8: the final artifact is the records parsed from the resume checkpoint
\* followed by every record sent on the exporter channel, in the order they
\* were sent; none is missing, none is out of place.
FinalWritten ==
    \/ pc = "cleanup_end"
    \/ pc = "returned" /\ exit \in {"eos", "err"}

C8_FinalArtifactOrder ==
    FinalWritten =>
        artifact.records = SerializeAll(config.resume_from.records \o sent_log)

C8_ResumedRunExported ==
    /\ pc = "returned" /\ exit = "eos"
    /\ config.resume_from.kind = "ok"
    /\ Len(sent_log) >= 2

\* C10: resumed from the artifact with all three frames of X and two of the
\* three frames of Y, the run re-processes only Y and its final artifact is
\* the union: three records of X and three records of Y.  (Stated for the
\* runs in which Y decodes to three frames and the service answers all three.)
RecordsOfPath(path) ==
    {i \in DOMAIN artifact.records : artifact.records[i].file.file_path = path}
AnsweredOf(path) ==
    {i \in DOMAIN sent_log :
        sent_log[i].file.file_path = path /\ sent_log[i].bboxes # None}

C10_ResumeUnion ==
    ( /\ config.resume_from = Parsed(PartialPrior)
      /\ pc = "returned" /\ exit = "eos"
      /\ Cardinality(AnsweredOf("Y.mp4")) = 3
      /\ {sent_log[i].frame_index : i \in AnsweredOf("Y.mp4")} = {0, 1, 2} ) =>
        /\ WorkPaths = {"Y.mp4"}
        /\ Cardinality(AnsweredOf("X.mp4")) = 0
        /\ Cardinality(RecordsOfPath("X.mp4")) = 3
        /\ Cardinality(RecordsOfPath("Y.mp4")) = 3

\* ------------------------------------------------- the resume reader alone
\* The reader run on every prior artifact of up to MaxPrior records over the
\* two files of the tree and a third FileItem the tree does not have, with
\* total_frames from 0 to MaxTotal.
PriorFiles ==
    index_files_and_folders(TreeVideos)
        \cup {[FileIn(TreeVideos, "X.mp4") EXCEPT !.file_id = 7]}
\* A record with total_frames = 0 is the error record of a file, any other
\* one an answered frame.
PriorRecord(f, t) ==
    IF t = 0 THEN ExportFrame(f, 0, 0, None, None, Some)
    ELSE ExportFrame(f, 0, t, Some, Some, None)
PriorRecords == {PriorRecord(f, t) : f \in PriorFiles, t \in 0..MaxTotal}
Priors == UNION {[1..n -> PriorRecords] : n \in 0..MaxPrior}

ResumeInit ==
    \E prior \in Priors :
        InitWith(Config(TreeVideos, FALSE, CheckpointEvery, Parsed(prior)),
                 "resume", FALSE)
ResumeNext == Resume
ResumeSpec == ResumeInit /\ [][ResumeNext]_vars

Resumed == pc = "spawn" /\ config.resume_from.kind = "ok"
Prior == config.resume_from.records
Indexed == index_files_and_folders(config.tree)

\* C9: after the resume reader has run, a file is absent from the work set
\* exactly when the number of its records in the artifact equals the
\* total_frames reported for it.
C9_AbsentIffCountEqualsTotal ==
    Resumed =>
        \A f \in Indexed :
            f \notin file_paths <=>
                (CountOf(f, Prior) > 0 /\ CountOf(f, Prior) = FirstTotalOf(f, Prior))

\* C9, as the reader behaves: a file is absent exactly when the total_frames
\* of its first record is at least 1 and at most the number of its records
\* (the running count passes through it); every other file remains.
C9_AbsentIffCountReachesTotal ==
    Resumed =>
        \A f \in Indexed :
            f \notin file_paths <=>
                /\ CountOf(f, Prior) > 0
                /\ FirstTotalOf(f, Prior) >= 1
                /\ FirstTotalOf(f, Prior) <= CountOf(f, Prior)

C9_RemovedWithMoreRecords ==
    /\ Resumed
    /\ \E f \in Indexed :
        /\ f \notin file_paths
        /\ CountOf(f, Prior) > FirstTotalOf(f, Prior)
    /\ \E f \in Indexed :
        /\ f \in file_paths
        /\ CountOf(f, Prior) > 0

\* C36: the reader takes a file out of the work set exactly when, going
\* through the artifact in order, the number of the file's records counted
\* so far equals, after one of them, the total_frames of the file's first
\* record.  So a file whose first record is an error record (total_frames
\* 0) stays in the work set, and a file with more records than total_frames
\* (at least 1) is taken out.
RunningCount(f, k) == Cardinality({i \in 1..k : Prior[i].file = f})
CountMeetsTotal(f) ==
    \E k \in DOMAIN Prior :
        Prior[k].file = f /\ RunningCount(f, k) = FirstTotalOf(f, Prior)

C36_RemovedWhenRunningCountMeetsTotal ==
    Resumed =>
        \A f \in Indexed :
            /\ f \notin file_paths <=> CountMeetsTotal(f)
            /\ (CountOf(f, Prior) > 0 /\ FirstTotalOf(f, Prior) = 0) =>
                f \in file_paths
            /\ (CountOf(f, Prior) > 0
                    /\ CountOf(f, Prior) > FirstTotalOf(f, Prior)
                    /\ FirstTotalOf(f, Prior) >= 1) => f \notin file_paths

C36_ErrorFirstKeptAndSurplusRemoved ==
    /\ Resumed
    /\ \E f \in Indexed :
        /\ f \in file_paths
        /\ CountOf(f, Prior) >= 2 /\ FirstTotalOf(f, Prior) = 0
        /\ \E i \in DOMAIN Prior : Prior[i].file = f /\ Prior[i].total_frames = 2
    /\ \E f \in Indexed :
        /\ f \notin file_paths
        /\ FirstTotalOf(f, Prior) = 1 /\ CountOf(f, Prior) = 2

\* ------------------------------------------- the artifact read back (JSON)
\* Deserialize of FileItem, as derived: every field of the struct has to be
\* in the object; a missing field is an error.
FileItemFields == {"folder_id", "file_id", "file_path", "tmp_path"}
DeserializeFileItem(o) ==
    IF FileItemFields \subseteq DOMAIN o
    THEN [ok |-> TRUE,
          value |-> FileItem_new(o.folder_id, o.file_id, o.file_path, o.tmp_path)]
    ELSE [ok |-> FALSE, value |-> None]

DeserializeFrame(o) ==
    ExportFrame(DeserializeFileItem(o.file).value, o.frame_index, o.total_frames,
                o.bboxes, o.label, o.error)

\* serde_json::from_str(&json)?  on the text of a written artifact: the
\* records, or the error that resume_from_checkpoint returns.
ReadJson(a) ==
    IF \A i \in DOMAIN a.records : DeserializeFileItem(a.records[i].file).ok
    THEN Parsed([i \in DOMAIN a.records |-> DeserializeFrame(a.records[i])])
    ELSE Rejected("unparsable")

\* What a run over TreeMixed can hold in its accumulator when the exporter
\* has finished: per file an error record or answered frames, never both.
WrittenItems(staging) ==
    {IF staging THEN [f EXCEPT !.tmp_path = StagedPath(f.file_path)] ELSE f :
        f \in index_files_and_folders(TreeMixed)}
WrittenRecords(staging) ==
    {ExportFrame(f, 0, 0, None, None, Some) : f \in WrittenItems(staging)}
    \cup {ExportFrame(f, 0, 1, Some, Some, None) :
            f \in {g \in WrittenItems(staging) : IsImage(g.file_path)}}
    \cup {ExportFrame(f, i, MaxFrames, Some, Some, None) :
            f \in {g \in WrittenItems(staging) : IsVideo(g.file_path)},
            i \in 0..(MaxFrames - 1)}
WellFormed(data) ==
    \A i, j \in DOMAIN data :
        /\ i # j => data[i] # data[j]
        /\ data[i].file = data[j].file => data[i].error = data[j].error
WrittenSeqs(staging) ==
    {d \in UNION {[1..n -> WrittenRecords(staging)] : n \in 0..MaxWritten} :
        WellFormed(d)}

LastCheckpoint(data) ==
    IF Len(data) >= CheckpointEvery
    THEN WriteArtifact(SubSeq(data, 1, CheckpointEvery * (Len(data) \div CheckpointEvery)))
    ELSE NoArtifact

\* A run at the end of its inbound stream, the exporter finished, the
\* accumulator holding `data`.
RoundTripInit ==
    \E staging \in BOOLEAN :
      \E data \in WrittenSeqs(staging) :
        /\ config = Config(TreeMixed, staging, CheckpointEvery, NoResume)
        /\ pc = "wait"
        /\ exit = "none"
        /\ buffer_exists = staging
        /\ staged = {}
        /\ file_paths = index_files_and_folders(TreeMixed)
        /\ export_data = data
        /\ frames = <<>>
        /\ media_q = <<>>
        /\ media_q_s = FALSE
        /\ io_q = <<>>
        /\ io = [state |-> IF staging THEN "done" ELSE "none", cur |-> None, todo |-> {}]
        /\ worker = [p \in Paths |->
                        IF p \in {f.file_path : f \in index_files_and_folders(TreeMixed)}
                        THEN "done" ELSE "idle"]
        /\ to_send = [p \in Paths |-> <<>>]
        /\ export_q = <<>>
        /\ export_q_s = FALSE
        /\ sent_log = data
        /\ checkpoint_counter = Len(data)
        /\ finish = TRUE
        /\ artifact = LastCheckpoint(data)
        /\ outbound = "ended"
        /\ requests = 1..Cardinality({i \in DOMAIN data : data[i].bboxes # None})
        /\ answered = 1..Cardinality({i \in DOMAIN data : data[i].bboxes # None})
        /\ next_uuid = Cardinality({i \in DOMAIN data : data[i].bboxes # None}) + 1
        /\ inbound_end = [kind |-> "eos", early |-> FALSE]
        /\ aborted = FALSE
        /\ session_token = SessionToken
        /\ authorization = SessionToken
        /\ final_writes = IF finish THEN 1 ELSE 0
        /\ removed = {}
        /\ map_access = NoAccess

\* The next run is given the written artifact as its checkpoint: the read
\* at the head of resume_from_checkpoint.  export_data still shows what the
\* writing run had in its accumulator.
ReadBack ==
    /\ pc = "returned" /\ exit = "eos"
    /\ artifact.written
    /\ pc' = "readback"
    /\ config' = [config EXCEPT !.resume_from = ReadJson(artifact)]
    /\ UNCHANGED << exit, buffer_exists, staged, file_paths, export_data, frames,
                    media_q, media_q_s, io_q, io, worker, to_send, export_q,
                    export_q_s, sent_log, checkpoint_counter, finish, artifact,
                    outbound, requests, answered, next_uuid, inbound_end, aborted,
                    session_token, authorization, final_writes, removed, map_access >>

RoundTripNext == FinalExport \/ CleanupAtEnd \/ ReadBack
RoundTripSpec == RoundTripInit /\ [][RoundTripNext]_vars

\* C11: a written JSON artifact read back by the resume reader parses, and
\* yields the very ExportFrame sequence that was written, every FileItem
\* field included.
C11_JsonRoundTrip ==
    pc = "readback" => config.resume_from = Parsed(export_data)

\* C12: every record sent to the exporter with bboxes set has its label set
\* too, and every record sent with an error set has frame_index = 0 and
\* total_frames = 0.
C12_SentRecordsShape ==
    \A i \in DOMAIN sent_log :
        /\ sent_log[i].bboxes # None => sent_log[i].label # None
        /\ sent_log[i].error # None =>
                sent_log[i].frame_index = 0 /\ sent_log[i].total_frames = 0

C12_BothKindsSent ==
    /\ \E i \in DOMAIN sent_log : sent_log[i].bboxes # None
    /\ \E i \in DOMAIN sent_log : sent_log[i].error # None

\* C13: every record sent to the exporter has exactly one of bboxes and
\* error set; a pending record (neither set) left in the correlation map is
\* never exported.
OneOfBboxesError(r) == (r.bboxes # None) # (r.error # None)

C13_ExactlyOneOfBboxesError ==
    /\ \A i \in DOMAIN sent_log : OneOfBboxesError(sent_log[i])
    /\ \A i \in DOMAIN export_q : OneOfBboxesError(export_q[i])
    /\ \A r \in Records : OneOfBboxesError(r)

C13_PendingLeftBehind ==
    /\ pc = "returned" /\ exit = "eos"
    /\ DOMAIN frames # {}
    /\ \E i \in DOMAIN sent_log : sent_log[i].bboxes # None
    /\ artifact.written

\* ------------------------------------------------- failures of one file
\* C16: a failure while processing one media file never aborts the run: no
\* decode worker panics on its file, whatever decoding comes to (an error, a
\* transcoder that does not spawn, a video without dimensions).
C16_FailureNeverPanics ==
    \A p \in Paths : worker[p] # "panicked"

\* C18: once a decode worker has panicked, the media channel is still closed
\* and the run still drains: the driver returns.
WorkerPanicked == \E p \in Paths : worker[p] = "panicked"

C18_PanicStillDrains == WorkerPanicked ~> (~media_q_s /\ pc = "returned")

\* C19: a copy into the staging directory that fails skips that file and
\* nothing else: the step leaves the staging thread running with the other
\* files still to do, touches neither the staging channel nor the driver,
\* and the staging thread then goes through the rest of the work set.
\* Skipped(p): p is in the work set, the staging thread is past it, and it
\* was never staged nor handed to a decode worker.
Skipped(p) ==
    /\ config.staging
    /\ worker[p] = "todo"
    /\ io.state \in {"running", "done"}
    /\ p \notin io.todo /\ io.cur # p
    /\ \A i \in DOMAIN io_q : io_q[i].file_path # p

\* A step of the staging thread in which a copy failed: it took a file and
\* holds none to push.
CopyFailed ==
    /\ io.state = "running" /\ io.cur = None /\ io.todo # {}
    /\ io' # io /\ io'.cur = None

C19_CopyFailureSkipsOneFile ==
    /\ [][CopyFailed =>
            /\ io'.state = "running"
            /\ \E p \in io.todo : io'.todo = io.todo \ {p} /\ Skipped(p)'
            /\ io_q' = io_q
            /\ staged' = staged
            /\ pc' = pc
            /\ ~aborted']_vars
    /\ (\E p \in Paths : Skipped(p)) ~> ((io.state = "done" /\ io.todo = {}) \/ aborted)

C19_StagedAfterSkip ==
    \E p, q \in Paths :
        /\ Skipped(p)
        /\ io.cur = q /\ q \in staged
        /\ buffer_exists /\ ~aborted
        /\ pc = "inbound"

\* C20: a failed Auth (success=false or a transport error) ends the run with
\* nothing started: no Detect request made, no channel, worker or thread
\* started, no artifact written.  A Detect request is made only with a session
\* token in hand, the one a successful AuthResponse carried, and carries it
\* as its authorization metadata.
Granted == {r.token : r \in {x \in AuthReplies : x.kind = "response" /\ x.success}}

C20_AuthFailureStartsNothing ==
    /\ exit = "auth_err" =>
            /\ pc = "returned"
            /\ session_token = None /\ authorization = None
            /\ ~Spawned /\ ~media_q_s /\ ~export_q_s
            /\ \A p \in Paths : worker[p] = "idle"
            /\ io.state = "none"
            /\ requests = {} /\ sent_log = <<>>
            /\ artifact = NoArtifact /\ ~finish
    /\ (pc # "auth" /\ exit # "auth_err") => session_token \in Granted
    /\ authorization # None =>
            /\ exit # "auth_err"
            /\ authorization = session_token

C20_AuthRefused == pc = "returned" /\ exit = "auth_err" /\ authorization = None

\* ------------------------------------------------------ how a run reports
\* The Result process returns: Err where an error left through `?` (auth,
\* the resume reader, the final export), Ok(()) on every other return.  main
\* hands the Result on, so Err is a non-zero exit code and Ok is exit code 0.
ProcessResult ==
    IF exit \in {"auth_err", "resume_err", "export_err"} THEN "Err" ELSE "Ok"
ExitCode == IF ProcessResult = "Err" THEN 1 ELSE 0

\* No stage of the pipeline was started: no channel, no thread, no request,
\* no export; and no index either.
StagesNotStarted ==
    /\ ~Spawned /\ ~media_q_s /\ ~export_q_s
    /\ \A p \in Paths : worker[p] = "idle"
    /\ io.state = "none"
    /\ authorization = None /\ requests = {}
    /\ sent_log = <<>> /\ ~finish
    /\ artifact = NoArtifact

PipelineNotStarted == file_paths = {} /\ StagesNotStarted

\* C21: a run with checkpoint = 0 starts no stage of the pipeline and
\* reports failure, a non-zero exit code.
C21_CheckpointZeroFails ==
    (pc = "returned" /\ config.checkpoint = 0 /\ exit = "checkpoint0") =>
        /\ PipelineNotStarted
        /\ ExitCode # 0

\* C22: a checkpoint path that does not exist, is not a regular file, or has
\* an extension other than json or csv makes the resume reader fail, and the
\* run with it: the driver returns Err, the work set is the indexed one, the
\* accumulator is empty, and no stage is started.
InvalidCheckpoint == {"missing", "notfile", "badext", "noext"}

C22_InvalidCheckpointFatal ==
    /\ exit = "resume_err" =>
            /\ pc = "returned" /\ ProcessResult = "Err"
            /\ file_paths = index_files_and_folders(config.tree)
            /\ export_data = <<>>
            /\ StagesNotStarted
    /\ config.resume_from.kind \in InvalidCheckpoint =>
            /\ pc \in {"auth", "cleanup", "check", "resume", "returned"}
            /\ pc = "returned" => exit \in {"auth_err", "checkpoint0", "resume_err"}
            /\ StagesNotStarted

C22_RejectedWithWorkSet ==
    /\ pc = "returned" /\ exit = "resume_err"
    /\ config.resume_from.kind \in {"missing", "notfile", "badext"}
    /\ file_paths # {}

\* C23: with staging, the staged copies present in the staging directory are
\* never more than buffer_size, counting the one just copied and those that
\* decode workers hold and have not removed yet.
C23_StagedWithinBufferSize ==
    config.staging => Cardinality(staged) <= config.buffer_size

\* --------------------------------------------------- who writes what
\* A step of the exporter thread: it takes a record off its channel.  A step
\* of the resume reader, of the driver's final export, of the staging thread
\* copying a file.
ExporterThreadStep ==
    \/ Spawned /\ ~finish /\ export_q # <<>> /\ export_q' = Tail(export_q)
    \/ Spawned /\ ~finish /\ final_writes' # final_writes
ReaderStep == pc = "resume" /\ pc' = "spawn" /\ ~Spawned
DriverExportStep == pc = "wait" /\ finish /\ pc' = "cleanup_end"
StagingCopyStep ==
    io.state = "running" /\ io.cur = None /\ io'.cur \in staged' \ staged

\* C24: the export accumulator is mutated only by the exporter, the artifact
\* is written only by the exporter, and files are put into the staging
\* directory only by the staging worker.
C24_SingleWriter ==
    [][/\ export_data' # export_data => ExporterThreadStep
       /\ artifact' # artifact => ExporterThreadStep
       /\ ~(staged' \subseteq staged) => StagingCopyStep]_vars

\* C24, as the code has it: each resource has one writer at a time.  The
\* accumulator is extended by the resume reader before the exporter thread
\* exists and by the exporter thread after; the artifact is written by the
\* exporter thread until it has finished and by the driver's final export
\* only after that; staged copies are made by the staging thread alone.
C24_OneWriterAtATime ==
    [][/\ export_data' # export_data => (ReaderStep \/ ExporterThreadStep)
       /\ artifact' # artifact => (ExporterThreadStep \/ DriverExportStep)
       /\ ~(ReaderStep /\ ExporterThreadStep)
       /\ ~(ExporterThreadStep /\ DriverExportStep)
       /\ ~(staged' \subseteq staged) => StagingCopyStep]_vars

C24_AllWritersActed ==
    /\ pc = "returned" /\ exit = "eos"
    /\ config.resume_from.kind = "ok" /\ config.resume_from.records # <<>>
    /\ checkpoint_counter >= config.checkpoint
    /\ artifact.written
    /\ config.staging

\* C25: a run over a folder without media files does no decoding and sends
\* no DetectRequest; when the response stream ends after the request stream
\* the driver returns, and after end-of-stream the artifact is the empty
\* record sequence and the run reports success.
EmptyFolder == config.tree = TreeEmpty

C25_EmptyFolderRun ==
    /\ [](EmptyFolder =>
            /\ \A p \in Paths : worker[p] = "idle"
            /\ media_q = <<>> /\ requests = {} /\ frames = <<>>
            /\ sent_log = <<>> /\ ~aborted)
    /\ []((EmptyFolder /\ pc = "returned" /\ exit = "eos") =>
            /\ artifact = WriteArtifact(<<>>)
            /\ ProcessResult = "Ok" /\ ExitCode = 0)
    /\ (EmptyFolder /\ pc = "detect") ~> (pc = "returned" \/ ~NormalPath)

C25_EmptyFolderExported ==
    /\ EmptyFolder /\ NormalPath
    /\ pc = "returned" /\ exit = "eos"
    /\ artifact = WriteArtifact(<<>>)

\* C26: requests are yielded in the order the Frames come off the media
\* channel, and the channel keeps each producer's order, so the requests of
\* one video are made in increasing frame index.  Uuids are handed out in
\* the order of the requests: of two pending requests of one file the
\* earlier has the smaller frame index.
C26_RequestsInFrameOrder ==
    \A u1, u2 \in DOMAIN frames :
        (u1 < u2 /\ frames[u1].file = frames[u2].file) =>
            frames[u1].frame_index < frames[u2].frame_index

\* C27: every Frame the generator takes off the media channel makes one
\* insert into the correlation map and one DetectRequest, under one uuid
\* that was never used before; the Frame is consumed by that step; no
\* request or insert is made otherwise, and no insert replaces an entry.
FrameStep ==
    /\ outbound = "live" /\ outbound' = "live"
    /\ media_q # <<>> /\ Head(media_q).type = "Frame"
    /\ media_q' = Tail(media_q)

C27_OneInsertOneRequest ==
    /\ [](DOMAIN frames \subseteq requests /\ requests = 1..(next_uuid - 1))
    /\ [][FrameStep =>
            /\ next_uuid \notin requests /\ next_uuid \notin DOMAIN frames
            /\ requests' = requests \cup {next_uuid}
            /\ DOMAIN frames' = DOMAIN frames \cup {next_uuid}
            /\ frames'[next_uuid] = Pending(Head(media_q))
            /\ \A u \in DOMAIN frames : frames'[u] = frames[u]
            /\ export_q' = export_q]_vars
    /\ [][(requests' # requests \/ ~(DOMAIN frames' \subseteq DOMAIN frames))
            => FrameStep]_vars

C27_SeveralRequests ==
    /\ Cardinality(requests) >= 2
    /\ DOMAIN frames # {} /\ answered # {}
    /\ pc = "inbound"

\* C28: after the response stream ends, by end-of-stream or by error, the
\* driver drops its exporter sender, then leaves its wait only once the
\* finished flag is set, then writes the artifact from the accumulator, then
\* removes the staging directory and returns; the exporter thread takes no
\* step once the flag is set, so the final export never overlaps it.
DropSenderStep == pc = "inbound" /\ pc' # "inbound"
LeaveWaitStep == pc = "wait" /\ pc' # "wait"
RemoveStagingStep == pc = "cleanup_end" /\ pc' # "cleanup_end"

C28_DrainInOrder ==
    /\ [][DropSenderStep =>
            /\ pc' = "wait" /\ export_q_s /\ ~export_q_s'
            /\ inbound_end'.kind \in {"eos", "err"}
            /\ artifact' = artifact /\ buffer_exists' = buffer_exists]_vars
    /\ [][LeaveWaitStep =>
            /\ finish /\ ~export_q_s /\ ExportClosed
            /\ buffer_exists' = buffer_exists
            /\ \/ pc' = "cleanup_end" /\ artifact' = WriteArtifact(export_data)
               \/ pc' = "returned" /\ exit' = "export_err"
                    /\ artifact' = artifact]_vars
    /\ [][RemoveStagingStep =>
            /\ pc' = "returned" /\ exit' = inbound_end.kind
            /\ (config.staging => ~buffer_exists' /\ staged' = {})
            /\ artifact' = artifact]_vars
    /\ [][finish => ~ExporterThreadStep /\ export_data' = export_data]_vars
    /\ [](pc \in {"wait", "cleanup_end"} => ~export_q_s)
    /\ [](pc = "returned" /\ exit \in {"eos", "err"} =>
            finish /\ ~export_q_s /\ artifact = WriteArtifact(export_data))

C28_DrainedAfterError ==
    /\ pc = "returned" /\ exit = "err"
    /\ finish /\ ~buffer_exists
    /\ artifact.written /\ export_data # <<>>
    /\ config.staging

\* C29: the exporter makes its final write and sets the finished flag only
\* when every sender of its channel is dropped and the channel is empty; it
\* makes one final write, of the whole accumulator; the flag is set only
\* after that write; while the flag is set the channel is empty, every record
\* sent is in the accumulator, and nothing more is sent.
ExporterExitStep == final_writes' # final_writes \/ finish' # finish
AllProcessed ==
    /\ export_q = <<>>
    /\ Len(export_data) >= Len(sent_log)
    /\ SubSeq(export_data, Len(export_data) - Len(sent_log) + 1,
              Len(export_data)) = sent_log

C29_ExporterExit ==
    /\ [][ExporterExitStep =>
            ~export_q_s /\ outbound # "live" /\ export_q = <<>>]_vars
    /\ [][final_writes' # final_writes =>
            /\ final_writes = 0 /\ final_writes' = 1 /\ ~finish
            /\ artifact' = WriteArtifact(export_data)]_vars
    /\ [][finish' # finish =>
            /\ ~finish /\ final_writes = 1
            /\ artifact = WriteArtifact(export_data)]_vars
    /\ [](finish => final_writes = 1 /\ AllProcessed)
    /\ [][finish => export_q' = <<>> /\ sent_log' = sent_log]_vars

C29_FlagAfterFinalWrite ==
    /\ finish /\ final_writes = 1 /\ pc = "wait"
    /\ sent_log # <<>>
    /\ checkpoint_counter % config.checkpoint # 0
    /\ artifact = WriteArtifact(export_data)

\* C30: when the generator takes an ErrFile off the media channel it sends
\* the exporter channel one ExportFrame for that file, with the error set
\* and bboxes and label absent; the correlation map is left as it was and no
\* DetectRequest is yielded.
ErrFileStep ==
    /\ outbound = "live" /\ outbound' = "live"
    /\ media_q # <<>> /\ Head(media_q).type = "ErrFile"
    /\ media_q' = Tail(media_q)

C30_ErrFileToExporter ==
    [][ErrFileStep =>
        /\ Len(export_q') = Len(export_q) + 1
        /\ SubSeq(export_q', 1, Len(export_q)) = export_q
        /\ LET r == export_q'[Len(export_q')] IN
            /\ r.file = Head(media_q).file
            /\ r.error # None
            /\ r.bboxes = None /\ r.label = None
            /\ r.frame_index = 0 /\ r.total_frames = 0
        /\ frames' = frames
        /\ requests' = requests /\ next_uuid' = next_uuid]_vars

C30_ErrorRecordExported ==
    /\ \E i \in DOMAIN export_data :
        export_data[i].error # None /\ export_data[i].bboxes = None
    /\ requests # {}
    /\ DOMAIN frames # {}

\* C31: a decoded still image emits one Frame with frame_index 0 and
\* total_frames 1; a decoded video emits one Frame per sampled frame, each
\* with an index of the decoded list and with total_frames the number of
\* sampled frames, so the Frames of a file agree on total_frames and, once
\* the worker has sent them all, there are total_frames of them.
\* The Frames of a file still to be sent, and those sent: on the media
\* channel, pending in the correlation map, or answered and exported.
Unsent(p) == {i \in DOMAIN to_send[p] : to_send[p][i].type = "Frame"}
OnChannel(p) ==
    {i \in DOMAIN media_q :
        media_q[i].type = "Frame" /\ media_q[i].file.file_path = p}
PendingOf(p) == {u \in DOMAIN frames : frames[u].file.file_path = p}
ExportedOf(p) ==
    {i \in DOMAIN sent_log :
        sent_log[i].file.file_path = p /\ sent_log[i].error = None}
Emitted(p) ==
    Cardinality(OnChannel(p)) + Cardinality(PendingOf(p))
        + Cardinality(ExportedOf(p))
FrameFields(p) ==
    {<< to_send[p][i].frame_index, to_send[p][i].total_frames >> : i \in Unsent(p)}
    \cup {<< media_q[i].frame_index, media_q[i].total_frames >> : i \in OnChannel(p)}
    \cup {<< frames[u].frame_index, frames[u].total_frames >> : u \in PendingOf(p)}
    \cup {<< sent_log[i].frame_index, sent_log[i].total_frames >> : i \in ExportedOf(p)}

C31_FrameIndexAndTotal ==
    outbound # "dropped" =>
        \A p \in Paths :
            /\ \A x, y \in FrameFields(p) : x[2] = y[2]
            /\ \A x \in FrameFields(p) :
                /\ Emitted(p) + Cardinality(Unsent(p)) = x[2]
                /\ IsImage(p) => x = << 0, 1 >>
                /\ IsVideo(p) => x[1] \in 0..(MaxDecoded - 1) /\ x[2] = MaxFrames
            /\ (worker[p] \in {"removing", "done"} /\ FrameFields(p) # {}) =>
                \A x \in FrameFields(p) : Emitted(p) = x[2]

C31_ImageAndVideoEmitted ==
    /\ outbound = "ended"
    /\ Emitted("Z.jpg") = 1
    /\ Emitted("Y.mp4") = MaxFrames
    /\ PendingOf("Y.mp4") # {} /\ ExportedOf("Y.mp4") # {}

\* C34: a decode worker deletes nothing but the staged copy of its file: a
\* path it has deleted is the staged path of a file of a staging run and
\* never a file of the input tree; without staging it deletes nothing.
SourcePaths == {f.file_path : f \in index_files_and_folders(config.tree)}

C34_SourceNeverDeleted ==
    /\ removed \cap SourcePaths = {}
    /\ \A q \in removed :
        config.staging /\ \E p \in SourcePaths : q = StagedPath(p) /\ q # p
    /\ ~config.staging => removed = {}

C34_StagedCopiesDeleted ==
    /\ Cardinality(removed) >= 2
    /\ staged = {}
    /\ \A p \in SourcePaths : worker[p] = "done"
    /\ pc = "inbound"

\* ------------------------------------------------ the frame sampler alone
\* A run over TreeMixed in its inbound loop, the worker of Y.mp4 about to
\* handle a decoded frame list of `decoded` frames with max_frames set to
\* `max_frames` (both kept in the run's config).
SampleConfig(decoded, max_frames) ==
    [decoded |-> decoded, max_frames |-> max_frames]
        @@ Config(TreeMixed, FALSE, CheckpointEvery, NoResume)

SampleInit ==
    \E n \in 0..MaxLen, k \in 0..MaxSample :
        /\ config = SampleConfig(n, k)
        /\ pc = "inbound"
        /\ exit = "none"
        /\ buffer_exists = FALSE
        /\ staged = {}
        /\ file_paths = index_files_and_folders(TreeMixed)
        /\ export_data = <<>>
        /\ frames = <<>>
        /\ media_q = <<>>
        /\ media_q_s = TRUE
        /\ io_q = <<>>
        /\ io = [state |-> "none", cur |-> None, todo |-> {}]
        /\ worker = [p \in Paths |->
                        IF p \in {f.file_path : f \in index_files_and_folders(TreeMixed)}
                        THEN "todo" ELSE "idle"]
        /\ to_send = [p \in Paths |-> <<>>]
        /\ export_q = <<>>
        /\ export_q_s = TRUE
        /\ sent_log = <<>>
        /\ checkpoint_counter = 0
        /\ finish = FALSE
        /\ artifact = NoArtifact
        /\ outbound = "live"
        /\ requests = {}
        /\ answered = {}
        /\ next_uuid = 1
        /\ inbound_end = [kind |-> "none", early |-> FALSE]
        /\ aborted = FALSE
        /\ session_token = SessionToken
        /\ authorization = SessionToken
        /\ final_writes = IF finish THEN 1 ELSE 0
        /\ removed = {}
        /\ map_access = NoAccess

\* handle_ffmpeg_output, Ok arm, up to the first send: the decoded list is
\* sampled and the Frames to send are known.
HandleFfmpegOutput ==
    /\ ~aborted
    /\ worker["Y.mp4"] = "todo"
    /\ LET out == SampledFrames(FileOf("Y.mp4"), config.decoded, config.max_frames) IN
        /\ to_send' = [to_send EXCEPT !["Y.mp4"] = out]
        /\ worker' = [worker EXCEPT !["Y.mp4"] =
                        IF out = <<>> THEN "done" ELSE "sending"]
    /\ UNCHANGED << config, pc, exit, buffer_exists, staged, file_paths,
                    export_data, frames, media_q, media_q_s, io_q, io, export_q,
                    export_q_s, sent_log, checkpoint_counter, finish, artifact,
                    outbound, requests, answered, next_uuid, inbound_end, aborted,
                    session_token, authorization, final_writes, removed, map_access >>

SampleNext == HandleFfmpegOutput
SampleSpec == SampleInit /\ [][SampleNext]_vars

Sampled == worker["Y.mp4"] # "todo"
SampledIndexes ==
    [i \in 1..Len(to_send["Y.mp4"]) |-> to_send["Y.mp4"][i].frame_index]

\* C14: for N >= K > 0 the sampler returns exactly K items, the i-th being
\* the element at index floor(i*N/K), i in 0..K-1; for N = 0 or K = 0 it
\* returns nothing.
C14_SampleAtFloorIndexes ==
    Sampled =>
        LET N == config.decoded
            K == config.max_frames
        IN  /\ (N >= K /\ K > 0) =>
                SampledIndexes = [i \in 1..K |-> ((i - 1) * N) \div K]
            /\ (N = 0 \/ K = 0) => SampledIndexes = <<>>

\* C15: for every N and K the sampler returns min(K, N) items; with K > N
\* it returns N items, not K.
C15_SampleLengthIsMin ==
    Sampled =>
        Len(SampledIndexes) =
            IF config.max_frames < config.decoded
            THEN config.max_frames ELSE config.decoded

\* ------------------------------------------------- the inbound loop alone
\* The two drivers of the repository, process (lib.rs) and run (main.rs), are
\* the same pipeline; they differ in the lookup of a response's uuid.  A run
\* over TreeMixed, without staging or resume, in its inbound loop, under
\* either driver, with a service that may also answer with a uuid the map
\* does not hold: one it never got, or one it has answered before.
UnknownUuid == 0
Drivers == {"process", "run"}

InboundConfig(driver) ==
    [driver |-> driver] @@ Config(TreeMixed, FALSE, CheckpointEvery, NoResume)

InboundInit ==
    \E d \in Drivers :
        /\ config = InboundConfig(d)
        /\ pc = "inbound"
        /\ exit = "none"
        /\ buffer_exists = FALSE
        /\ staged = {}
        /\ file_paths = index_files_and_folders(TreeMixed)
        /\ export_data = <<>>
        /\ frames = <<>>
        /\ media_q = <<>>
        /\ media_q_s = TRUE
        /\ io_q = <<>>
        /\ io = [state |-> "none", cur |-> None, todo |-> {}]
        /\ worker = [p \in Paths |->
                        IF p \in {f.file_path : f \in index_files_and_folders(TreeMixed)}
                        THEN "todo" ELSE "idle"]
        /\ to_send = [p \in Paths |-> <<>>]
        /\ export_q = <<>>
        /\ export_q_s = TRUE
        /\ sent_log = <<>>
        /\ checkpoint_counter = 0
        /\ finish = FALSE
        /\ artifact = NoArtifact
        /\ outbound = "live"
        /\ requests = {}
        /\ answered = {}
        /\ next_uuid = 1
        /\ inbound_end = [kind |-> "none", early |-> FALSE]
        /\ aborted = FALSE
        /\ session_token = SessionToken
        /\ authorization = SessionToken
        /\ final_writes = IF finish THEN 1 ELSE 0
        /\ removed = {}
        /\ map_access = NoAccess

\* process, Ok(Some(response)) with frames.remove(&uuid) = None: the `if let`
\* does not match, nothing is done, the loop takes the next message.
InboundUnknown(uuid) ==
    /\ ~aborted
    /\ pc = "inbound"
    /\ config.driver = "process"
    /\ uuid \in answered \cup {UnknownUuid}
    /\ uuid \notin DOMAIN frames
    /\ answered' = answered \cup {uuid}
    /\ UNCHANGED << config, pc, exit, buffer_exists, staged, file_paths,
                    export_data, frames, media_q, media_q_s, io_q, io, worker,
                    to_send, export_q, export_q_s, sent_log, checkpoint_counter,
                    finish, artifact, outbound, requests, next_uuid, inbound_end,
                    aborted,
                    session_token, authorization, final_writes, removed, map_access >>

\* run, Ok(Some(response)) with frames.remove(&uuid) = None: unwrap panics on
\* the main thread, and the process ends there.
RunUnknown(uuid) ==
    /\ ~aborted
    /\ pc = "inbound"
    /\ config.driver = "run"
    /\ uuid \in answered \cup {UnknownUuid}
    /\ uuid \notin DOMAIN frames
    /\ answered' = answered \cup {uuid}
    /\ aborted' = TRUE
    /\ UNCHANGED << config, pc, exit, buffer_exists, staged, file_paths,
                    export_data, frames, media_q, media_q_s, io_q, io, worker,
                    to_send, export_q, export_q_s, sent_log, checkpoint_counter,
                    finish, artifact, outbound, requests, next_uuid, inbound_end,
                    session_token, authorization, final_writes, removed, map_access >>

InboundNext ==
    \/ \E p \in Paths, o \in DecodeOutcomes : MediaStart(p, o)
    \/ \E p \in Paths : MediaSend(p)
    \/ ProducersEnd
    \/ OutboundPoll
    \/ OutboundEnd
    \/ TransportDrop
    \/ \E u \in requests : InboundResponse(u)
    \/ \E u \in requests \cup {UnknownUuid} : InboundUnknown(u)
    \/ \E u \in requests \cup {UnknownUuid} : RunUnknown(u)
    \/ \E k \in {"eos", "err"} : InboundEnd(k)
    \/ FinalExport
    \/ CleanupAtEnd
    \/ ExportRecv
    \/ ExportFinalWrite
    \/ ExportFinish

InboundSpec == InboundInit /\ [][InboundNext]_vars

\* C17: a response whose uuid the correlation map does not hold is dropped
\* silently: the step that takes it sends nothing to the exporter, leaves the
\* map as it is, and leaves the driver in its inbound loop, not failed.
C17_UnknownUuidDropped ==
    [][(UnknownUuid \notin answered /\ UnknownUuid \in answered') =>
            /\ frames' = frames
            /\ export_q' = export_q
            /\ sent_log' = sent_log
            /\ pc' = "inbound"
            /\ ~aborted']_vars

\* C35: at most one ExportFrame is sent to the exporter for a uuid.  A
\* response leads to a send only by taking the uuid's entry out of the map,
\* an entry of an answered uuid never comes back, and so the records sent
\* for responses are as many as the uuids answered, however often the
\* service repeats a response.
ResponseRecords == {i \in DOMAIN sent_log : sent_log[i].error = None}
ResponseExported ==
    /\ Len(sent_log') = Len(sent_log) + 1
    /\ sent_log'[Len(sent_log')].error = None

C35_OneExportPerUuid ==
    /\ [][ResponseExported =>
            \E u \in DOMAIN frames :
                /\ u \notin answered /\ u \in answered'
                /\ u \notin DOMAIN frames'
                /\ sent_log' = Append(sent_log, Merged(frames[u]))
                /\ export_q' = Append(export_q, Merged(frames[u]))]_vars
    /\ [](answered \cap DOMAIN frames = {})
    /\ [](Cardinality(ResponseRecords) = Cardinality(answered \cap requests))

C35_SecondResponse ==
    /\ config.driver = "run" /\ aborted
    /\ outbound = "live" /\ \A p \in Paths : worker[p] # "panicked"
    /\ UnknownUuid \notin answered
    /\ Cardinality(answered) >= 2
    /\ Cardinality(ResponseRecords) = Cardinality(answered)

\* ------------------------------------------------- the image resize alone
\* resize_encode computes in f32.  A positive f32 is kept here as its 24-bit
\* significand s (2^23 <= s < 2^24) and the number x of its bits that stand
\* after the binary point: the value is s / 2^x.
RECURSIVE LongDiv(_, _, _, _)
LongDiv(r, d, n, acc) ==
    IF n = 0 THEN [q |-> acc, r |-> r]
    ELSE IF 2 * r >= d THEN LongDiv(2 * r - d, d, n - 1, 2 * acc + 1)
    ELSE LongDiv(2 * r, d, n - 1, 2 * acc)

\* Round to nearest, ties to even.
RoundF32(q, x, more_than_half, half) ==
    IF more_than_half \/ (half /\ q % 2 = 1)
    THEN IF q + 1 = 2^24 THEN [s |-> 2^23, x |-> x - 1]
         ELSE [s |-> q + 1, x |-> x]
    ELSE [s |-> q, x |-> x]

\* p / d for d <= p < 2d, as a significand with x bits after the point.
QuotF32(p, d, x) ==
    LET r == LongDiv(p - d, d, 23, 1)
    IN  RoundF32(r.q, x, 2 * r.r > d, 2 * r.r = d)

\* a as f32 / b as f32, for integers 1 <= a, b < 2^7.
DivF32(a, b) ==
    LET e == CHOOSE k \in -7..7 :
                IF k >= 0 THEN b * 2^k <= a /\ a < b * 2^(k + 1)
                ELSE b <= a * 2^(-k) /\ a * 2^(-k) < 2 * b
        A == IF e >= 0 THEN a ELSE a * 2^(-e)
        B == IF e >= 0 THEN b * 2^e ELSE b
    IN  QuotF32(A, B, 23 - e)

\* h as f32 / f, for an integer 1 <= h < 2^7 and an f32 f.
DivByF32(h, f) ==
    LET a == CHOOSE k \in 0..7 : 2^k <= h /\ h < 2^(k + 1)
        H == h * 2^(23 - a)
    IN  IF H >= f.s THEN QuotF32(H, f.s, 46 - f.x - a)
        ELSE QuotF32(2 * H, f.s, 47 - f.x - a)

\* f as u32, for values below 2^24: the fraction is cut off.
TruncF32(f) == IF f.x > 23 THEN 0 ELSE f.s \div 2^f.x

\* resize_encode: the dimensions of the image that is encoded.
resize_encode(width, height, imgsz) ==
    IF width > height
    THEN LET ratio == DivF32(width, imgsz)
             resized_height == TruncF32(DivByF32(height, ratio))
         IN  [width |-> imgsz, height |-> (resized_height % 2) + resized_height]
    ELSE LET ratio == DivF32(height, imgsz)
             resized_width == TruncF32(DivByF32(width, ratio))
         IN  [width |-> (resized_width % 2) + resized_width, height |-> imgsz]

\* The Frame process_image builds: the encoded image (kept as its
\* dimensions) and the width and height of img, the decoded image.
ImageFrame(file, webp, width, height) ==
    [webp |-> webp, width |-> width, height |-> height] @@ Frame(file, 0, 1)

DetectRequest(uuid, image, width, height) ==
    [uuid |-> uuid, image |-> image, width |-> width, height |-> height]

\* A run over TreeMixed in its inbound loop, the worker of Z.jpg about to
\* process an image of width x height with imgsz as given (all three kept
\* in the run's config).
ResizeConfig(width, height, imgsz) ==
    [width |-> width, height |-> height, imgsz |-> imgsz]
        @@ Config(TreeMixed, FALSE, CheckpointEvery, NoResume)

ResizeInit ==
    \E w \in 1..MaxSide, h \in 1..MaxSide, sz \in 1..MaxImgsz :
        /\ config = ResizeConfig(w, h, sz)
        /\ pc = "inbound"
        /\ exit = "none"
        /\ buffer_exists = FALSE
        /\ staged = {}
        /\ file_paths = index_files_and_folders(TreeMixed)
        /\ export_data = <<>>
        /\ frames = <<>>
        /\ media_q = <<>>
        /\ media_q_s = TRUE
        /\ io_q = <<>>
        /\ io = [state |-> "none", cur |-> None, todo |-> {}]
        /\ worker = [p \in Paths |->
                        IF p \in {f.file_path : f \in index_files_and_folders(TreeMixed)}
                        THEN "todo" ELSE "idle"]
        /\ to_send = [p \in Paths |-> <<>>]
        /\ export_q = <<>>
        /\ export_q_s = TRUE
        /\ sent_log = <<>>
        /\ checkpoint_counter = 0
        /\ finish = FALSE
        /\ artifact = NoArtifact
        /\ outbound = "live"
        /\ requests = {}
        /\ answered = {}
        /\ next_uuid = 1
        /\ inbound_end = [kind |-> "none", early |-> FALSE]
        /\ aborted = FALSE
        /\ session_token = SessionToken
        /\ authorization = SessionToken
        /\ final_writes = 0
        /\ removed = {}
        /\ map_access = NoAccess

\* process_image on a decoded image: resize_encode, then the Frame with
\* img.width() and img.height().  An image resized to an empty one is not
\* encoded: the resizer's unwrap panics, or the encoder's error makes the
\* item an ErrFile.
ProcessImage ==
    /\ ~aborted
    /\ worker["Z.jpg"] = "todo"
    /\ LET webp == resize_encode(config.width, config.height, config.imgsz) IN
        IF webp.width = 0 \/ webp.height = 0
        THEN \/ /\ aborted' = TRUE
                /\ worker' = [worker EXCEPT !["Z.jpg"] = "panicked"]
                /\ UNCHANGED to_send
             \/ /\ to_send' = [to_send EXCEPT !["Z.jpg"] = << ErrFile(FileOf("Z.jpg")) >>]
                /\ worker' = [worker EXCEPT !["Z.jpg"] = "sending"]
                /\ UNCHANGED aborted
        ELSE /\ to_send' = [to_send EXCEPT !["Z.jpg"] =
                    << ImageFrame(FileOf("Z.jpg"), webp, config.width, config.height) >>]
             /\ worker' = [worker EXCEPT !["Z.jpg"] = "sending"]
             /\ UNCHANGED aborted
    /\ UNCHANGED << config, pc, exit, buffer_exists, staged, file_paths,
                    export_data, frames, media_q, media_q_s, io_q, io, export_q,
                    export_q_s, sent_log, checkpoint_counter, finish, artifact,
                    outbound, requests, answered, next_uuid, inbound_end,
                    session_token, authorization, final_writes, removed, map_access >>

\* The outbound generator takes an item: a Frame is yielded as a
\* DetectRequest with frame.webp, frame.width and frame.height.
YieldRequest ==
    /\ ~aborted
    /\ outbound = "live"
    /\ media_q # <<>>
    /\ LET item == Head(media_q) IN
       IF item.type = "Frame"
       THEN /\ frames' = (next_uuid :> Pending(item)) @@ frames
            /\ requests' = requests \cup
                    {DetectRequest(next_uuid, item.webp, item.width, item.height)}
            /\ next_uuid' = next_uuid + 1
            /\ UNCHANGED << export_q, sent_log >>
       ELSE /\ export_q' = Append(export_q, ErrorFrame(item))
            /\ sent_log' = Append(sent_log, ErrorFrame(item))
            /\ UNCHANGED << frames, requests, next_uuid >>
    /\ media_q' = Tail(media_q)
    /\ UNCHANGED << config, pc, exit, buffer_exists, staged, file_paths,
                    export_data, media_q_s, io_q, io, worker, to_send,
                    export_q_s, checkpoint_counter, finish, artifact, outbound,
                    answered, inbound_end, aborted,
                    session_token, authorization, final_writes, removed, map_access >>

ResizeNext ==
    \/ ProcessImage
    \/ MediaSend("Z.jpg")
    \/ YieldRequest
ResizeSpec == ResizeInit /\ [][ResizeNext]_vars

\* C32: the width and height of a Frame, and of its DetectRequest, are
\* those of the encoded image: the longer side is imgsz and the shorter side
\* is even.
Longer(d) == IF d.width > d.height THEN d.width ELSE d.height
Shorter(d) == IF d.width > d.height THEN d.height ELSE d.width
PostResize(d, image) ==
    /\ d.width = image.width /\ d.height = image.height
    /\ Longer(d) = config.imgsz
    /\ Shorter(d) % 2 = 0

C32_DimsArePostResize ==
    /\ \A i \in DOMAIN to_send["Z.jpg"] :
        to_send["Z.jpg"][i].type = "Frame" =>
            PostResize(to_send["Z.jpg"][i], to_send["Z.jpg"][i].webp)
    /\ \A i \in DOMAIN media_q :
        media_q[i].type = "Frame" => PostResize(media_q[i], media_q[i].webp)
    /\ \A r \in requests : PostResize(r, r.image)

\* --------------------------------------------------- the file indexer alone
\* The walks index_files_and_folders is run on: the root directory first,
\* then up to MaxEntries - 1 entries, each a directory, a media file or
\* another file, in the order WalkDir yields them.
EntryKinds == {"dir", "media", "other"}
TreeOf(kinds) ==
    [i \in 1..Len(kinds) |->
        [kind  |-> IF kinds[i] = "dir" THEN "dir" ELSE "file",
         path  |-> i,
         media |-> kinds[i] = "media"]]
Trees ==
    {TreeOf(<< "dir" >> \o k) :
        k \in UNION {[1..n -> EntryKinds] : n \in 0..(MaxEntries - 1)}}

IndexInit ==
    \E tree \in Trees :
        InitWith(Config(tree, FALSE, CheckpointEvery, NoResume), "check", FALSE)

IndexNext == CheckAndIndex
IndexSpec == IndexInit /\ [][IndexNext]_vars

\* C33: file_id is the number of FileItems emitted before, folder_id the
\* number of directories walked before; so the file_ids are 0..n-1, no two
\* FileItems share (folder_id, file_id), and folder_id does not decrease as
\* file_id grows.
TreeIndexed == pc = "resume"
MediaBefore(i) ==
    Cardinality({j \in 1..(i - 1) : config.tree[j].kind = "file" /\ config.tree[j].media})
DirsBefore(i) == Cardinality({j \in 1..(i - 1) : config.tree[j].kind = "dir"})

C33_IndexerIds ==
    TreeIndexed =>
        /\ \A i \in DOMAIN config.tree :
            (config.tree[i].kind = "file" /\ config.tree[i].media) =>
                FileItem_new(DirsBefore(i), MediaBefore(i), i, None) \in file_paths
        /\ Cardinality(file_paths) = MediaBefore(Len(config.tree) + 1)
        /\ {f.file_id : f \in file_paths} = 0..(Cardinality(file_paths) - 1)
        /\ \A f, g \in file_paths :
            /\ (f.folder_id = g.folder_id /\ f.file_id = g.file_id) => f = g
            /\ f.file_id <= g.file_id => f.folder_id <= g.folder_id

C33_FilesInSeveralFolders ==
    /\ TreeIndexed
    /\ Cardinality(file_paths) >= 3
    /\ Cardinality({f.folder_id : f \in file_paths}) >= 2

\* ------------------------------------------ the correlation map's lock alone
\* A run over TreeMixed, without staging or resume, in its inbound loop, with
\* the critical sections of the correlation map taken apart: the generator
\* receives an item, locks the map and inserts, unlocks, and yields the
\* request; the driver gets a response, locks the map, removes and sends,
\* and unlocks.  The service answers uuids of requests it has received.
LockInit ==
    /\ config = Config(TreeMixed, FALSE, CheckpointEvery, NoResume)
    /\ pc = "inbound"
    /\ exit = "none"
    /\ buffer_exists = FALSE
    /\ staged = {}
    /\ file_paths = index_files_and_folders(TreeMixed)
    /\ export_data = <<>>
    /\ frames = <<>>
    /\ media_q = <<>>
    /\ media_q_s = TRUE
    /\ io_q = <<>>
    /\ io = [state |-> "none", cur |-> None, todo |-> {}]
    /\ worker = [p \in Paths |->
                    IF p \in {f.file_path : f \in index_files_and_folders(TreeMixed)}
                    THEN "todo" ELSE "idle"]
    /\ to_send = [p \in Paths |-> <<>>]
    /\ export_q = <<>>
    /\ export_q_s = TRUE
    /\ sent_log = <<>>
    /\ checkpoint_counter = 0
    /\ finish = FALSE
    /\ artifact = NoArtifact
    /\ outbound = "live"
    /\ requests = {}
    /\ answered = {}
    /\ next_uuid = 1
    /\ inbound_end = [kind |-> "none", early |-> FALSE]
    /\ aborted = FALSE
    /\ session_token = SessionToken
    /\ authorization = SessionToken
    /\ final_writes = 0
    /\ removed = {}
    /\ map_access = NoAccess

\* A generator that yields the request before it locks the map and inserts.
GenLock_YieldsFirst ==
    /\ ~aborted
    /\ map_access.generator = "recv"
    /\ media_q # <<>> /\ Head(media_q).type = "Frame"
    /\ map_access.holder = "free"
    /\ requests' = requests \cup {next_uuid}
    /\ map_access' = [map_access EXCEPT !.holder = "generator", !.generator = "insert"]
    /\ UNCHANGED << config, pc, exit, buffer_exists, staged, file_paths,
                    export_data, frames, media_q, export_q, sent_log, answered, next_uuid,
                    media_q_s, io_q, io, worker, to_send,
                    export_q_s, checkpoint_counter, finish, artifact, outbound,
                    inbound_end, aborted, session_token, authorization,
                    final_writes, removed >>

\* media_q_r.recv() has given a Frame; frames_clone.lock(): the generator
\* waits for the lock and holds it.
GenLock ==
    /\ ~aborted
    /\ map_access.generator = "recv"
    /\ media_q # <<>> /\ Head(media_q).type = "Frame"
    /\ map_access.holder = "free"
    /\ map_access' = [map_access EXCEPT !.holder = "generator", !.generator = "insert"]
    /\ UNCHANGED << config, pc, exit, buffer_exists, staged, file_paths,
                    export_data, frames, media_q, export_q, sent_log, requests, answered,
                    next_uuid, media_q_s, io_q, io, worker, to_send,
                    export_q_s, checkpoint_counter, finish, artifact, outbound,
                    inbound_end, aborted, session_token, authorization,
                    final_writes, removed >>

\* .insert(uuid.clone(), export_frame); the guard is a temporary and is
\* dropped at the end of the statement.
GenInsert ==
    /\ ~aborted
    /\ map_access.generator = "insert"
    /\ map_access.holder = "generator"
    /\ frames' = (next_uuid :> Pending(Head(media_q))) @@ frames
    /\ next_uuid' = next_uuid + 1
    /\ media_q' = Tail(media_q)
    /\ map_access' = [map_access EXCEPT !.holder = "free", !.generator = "yield"]
    /\ UNCHANGED << config, pc, exit, buffer_exists, staged, file_paths,
                    export_data, export_q, sent_log, requests, answered, media_q_s, io_q, io, worker, to_send,
                    export_q_s, checkpoint_counter, finish, artifact, outbound,
                    inbound_end, aborted, session_token, authorization,
                    final_writes, removed >>

\* yield DetectRequest { uuid, .. }: the request goes to the service.
GenYield ==
    /\ ~aborted
    /\ map_access.generator = "yield"
    /\ requests' = requests \cup {next_uuid - 1}
    /\ map_access' = [map_access EXCEPT !.generator = "recv"]
    /\ UNCHANGED << config, pc, exit, buffer_exists, staged, file_paths,
                    export_data, frames, media_q, export_q, sent_log, answered, next_uuid,
                    media_q_s, io_q, io, worker, to_send,
                    export_q_s, checkpoint_counter, finish, artifact, outbound,
                    inbound_end, aborted, session_token, authorization,
                    final_writes, removed >>

\* The ErrFile arm: the error record is sent to the exporter; the map is not
\* touched.
GenErrFile ==
    /\ ~aborted
    /\ map_access.generator = "recv"
    /\ media_q # <<>> /\ Head(media_q).type = "ErrFile"
    /\ export_q' = Append(export_q, ErrorFrame(Head(media_q)))
    /\ sent_log' = Append(sent_log, ErrorFrame(Head(media_q)))
    /\ media_q' = Tail(media_q)
    /\ UNCHANGED << config, pc, exit, buffer_exists, staged, file_paths,
                    export_data, frames, requests, answered, next_uuid, map_access, media_q_s, io_q, io, worker, to_send,
                    export_q_s, checkpoint_counter, finish, artifact, outbound,
                    inbound_end, aborted, session_token, authorization,
                    final_writes, removed >>

\* inbound.message().await gives Ok(Some(response)): the service has echoed
\* the uuid of a request it has received.
DrvMessage(uuid) ==
    /\ ~aborted
    /\ pc = "inbound"
    /\ map_access.response = {}
    /\ uuid \in requests \ answered
    /\ answered' = answered \cup {uuid}
    /\ map_access' = [map_access EXCEPT !.response = {uuid}]
    /\ UNCHANGED << config, pc, exit, buffer_exists, staged, file_paths,
                    export_data, frames, media_q, export_q, sent_log, requests, next_uuid,
                    media_q_s, io_q, io, worker, to_send,
                    export_q_s, checkpoint_counter, finish, artifact, outbound,
                    inbound_end, aborted, session_token, authorization,
                    final_writes, removed >>

\* let mut frames = frames.lock().unwrap()
DrvLock ==
    /\ ~aborted
    /\ map_access.response # {}
    /\ map_access.holder = "free"
    /\ map_access' = [map_access EXCEPT !.holder = "driver"]
    /\ UNCHANGED << config, pc, exit, buffer_exists, staged, file_paths,
                    export_data, frames, media_q, export_q, sent_log, requests, answered,
                    next_uuid, media_q_s, io_q, io, worker, to_send,
                    export_q_s, checkpoint_counter, finish, artifact, outbound,
                    inbound_end, aborted, session_token, authorization,
                    final_writes, removed >>

\* frames.remove(&uuid): on a hit the merged record is sent to the exporter;
\* the guard is dropped at the end of the arm, before the next await.
DrvRemove ==
    /\ ~aborted
    /\ map_access.holder = "driver"
    /\ LET uuid == CHOOSE u \in map_access.response : TRUE IN
       IF uuid \in DOMAIN frames
       THEN /\ frames' = [u \in DOMAIN frames \ {uuid} |-> frames[u]]
            /\ export_q' = Append(export_q, Merged(frames[uuid]))
            /\ sent_log' = Append(sent_log, Merged(frames[uuid]))
       ELSE UNCHANGED << frames, export_q, sent_log >>
    /\ map_access' = [map_access EXCEPT !.holder = "free", !.response = {}]
    /\ UNCHANGED << config, pc, exit, buffer_exists, staged, file_paths,
                    export_data, media_q, requests, answered, next_uuid, media_q_s, io_q, io, worker, to_send,
                    export_q_s, checkpoint_counter, finish, artifact, outbound,
                    inbound_end, aborted, session_token, authorization,
                    final_writes, removed >>

LockNext ==
    \/ \E p \in Paths, o \in DecodeOutcomes : MediaStart(p, o)
    \/ \E p \in Paths : MediaSend(p)
    \/ ProducersEnd
    \/ GenLock
    \/ GenInsert
    \/ GenYield
    \/ GenErrFile
    \/ \E u \in requests : DrvMessage(u)
    \/ DrvLock
    \/ DrvRemove

LockSpec == LockInit /\ [][LockNext]_vars

\* C37: the pending record of a Frame is in the map, and the map's lock
\* released, before the Frame's request is yielded; so the uuid of every
\* request the service has received and not yet answered, and of every
\* response the driver has in hand, is in the map.  The generator does not
\* hold the lock at its recv or at its yield, nor the driver at its await.
AtAwait == map_access.response = {}
C37_InsertBeforeYield ==
    /\ [][requests' # requests =>
            \E u \in DOMAIN frames :
                /\ requests' = requests \cup {u}
                /\ map_access.holder # "generator"]_vars
    /\ [](\A u \in requests \ answered : u \in DOMAIN frames)
    /\ [](map_access.response \subseteq DOMAIN frames)
    /\ [](map_access.generator \in {"recv", "yield"} =>
            map_access.holder # "generator")
    /\ [](AtAwait => map_access.holder # "driver")

C37_BothSidesAtTheMap ==
    /\ map_access.generator = "insert" /\ map_access.holder = "generator"
    /\ map_access.response # {}
    /\ answered # {} /\ Cardinality(requests) >= 2

====
